---- MODULE Spec2Model ----
(***************************************************************************)
(* Layered cellular growth (Analysis_Simulation_Simple.py, second script:  *)
(* Grid, VerticalHolesTracker, Constraints, GrowthEngine, Simulation).     *)
(*                                                                         *)
(* A grid is the 2-D array Grid.cells, written here as a function from     *)
(* <<x, y>> to 0/1.  The tentative-placement checks of GrowthEngine are    *)
(* written as the sequence of Grid.set calls the code makes, so each       *)
(* check yields its answer together with the cells it leaves behind.       *)
(***************************************************************************)
EXTENDS Integers, FiniteSets, Sequences, TLC

\* ------------------------------------------------------------------------
\* Bounds of the model
\* ------------------------------------------------------------------------
\* Grid size (Constraints.cols / Constraints.rows, derived from the boundary
\* curve's bounding box in the program).
Cols == 4
Rows == 3
\* Number of layers of a run (UI.choose_layer_config, 1..50 in the program).
LayerCount == 2
\* Per-layer quota tables of Config, scaled to the grid: first entry of
\* GROW_PER_GEN_LAYER, MIN_CELLS_LAYER and MAX_CELLS_LAYER.
GrowBase == 4
MinBase == 5
MaxBase == 10
\* Attempt budgets, scaled: Config.MAX_GROW_ATTEMPTS (2000), the inner budget
\* of _grow_extra (500) and the outer budget of the top-up loop (10).
MaxGrowAttempts == 2
MaxExtraInner == 2
MaxExtraOuter == 2
\* Config.MIN_CELLS_FOR_WIDTH_CHECK (30 in the program), scaled to the grid:
\* the alive count from which the branch-end rule is evaluated.
MIN_CELLS_FOR_WIDTH_CHECK == 6
\* MIN_CELLS_FOR_WIDTH_CHECK of the Industry preset (50 in the program),
\* scaled to the grid in the same way.
INDUSTRY_MIN_CELLS_FOR_WIDTH_CHECK == 6
\* LIGHT_DISTANCE of the Living and the Work preset (5 and 8 in the
\* program), scaled to the grid: the largest true-outside distance a placed
\* cell and its neighbours may have.
LIVING_LIGHT_DISTANCE == 2
WORK_LIGHT_DISTANCE == 3
\* max_depth of _can_reach_edge (20 in the program), scaled to the grid: the
\* depth at which the bounded search gives up and answers "reaches the edge".
REACH_MAX_DEPTH == 1
\* Config.MAX_LINE (4 in the program), scaled to the grid: the run length
\* of which a candidate may exceed only one, the horizontal or the vertical.
MAX_LINE == 2
\* Width in bits of the value hash() returns (32 or 64 in an interpreter),
\* scaled to the grid: as in the program, where a grid of more than 64 cells
\* has more contents than there are hash values, the grids of the model have
\* more contents than 2^HashBits.
HashBits == 5
\* Config of the simple simulation, scaled: GRID_SIZE (50 in the program,
\* with the start cell in its middle), BOUNDARY_SIZE (18: half the side of
\* the boundary rectangle around the start cell), MAX_LIGHT_DISTANCE (3) and
\* MAX_ITERATIONS (80), and TOP_CANDIDATES_POOL (10), the size of the pool
\* of the best candidates, below the number of candidates the grid can have.
GRID_SIZE == 4
BOUNDARY_SIZE == 1
MAX_LIGHT_DISTANCE == 1
MAX_ITERATIONS == 4
TOP_CANDIDATES_POOL == 6

\* ------------------------------------------------------------------------
\* Program constants (class Config of the layered simulation)
\* ------------------------------------------------------------------------
MIN_WIDTH == 1
MIN_BRANCH_END_WIDTH == 2
MAX_THIN_FINGER_LENGTH == 2
HARD_BLOCKADE_THRESHOLD == -5
DEFAULT_LIGHT_DISTANCE == 3
EDGE_DISTANCE_THRESHOLD == 2
FRONTIER_RADIUS == 2
\* free-form cutover of can_place / _check_light_distance
FREE_FORM_CUTOVER == 30
\* max_line value from which _check_max_line is skipped
MAX_LINE_CUTOVER == 50
\* size of the ranked window the weighted draw is made from
TOP_K == 20
\* candidates looked at per iteration of _grow_extra
EXTRA_WINDOW == 10
\* "no distance found" result of distance_to_true_outside
UNREACHABLE == 9999
\* Config.WEIGHT_OBSTACLE (-1.2) in tenths
WEIGHT_OBSTACLE == -12

Functions == {"Work", "Living", "Industry"}

\* Config.FUNCTION_PRESETS: the keys each preset defines, by function tag;
\* WIDTH_SCORE_BONUS and BALANCE_BONUS_WEIGHT in tenths.
FUNCTION_PRESETS ==
  [ Living   |-> [ LIGHT_DISTANCE |-> LIVING_LIGHT_DISTANCE,
                   MIN_WIDTH |-> 2,
                   PREFERRED_WIDTH |-> 5, WIDTH_SCORE_BONUS |-> 50,
                   BALANCE_BONUS_WEIGHT |-> 5,
                   MAX_THIN_FINGER_LENGTH |-> 2, MIN_BRANCH_END_WIDTH |-> 2 ],
    Work     |-> [ LIGHT_DISTANCE |-> WORK_LIGHT_DISTANCE,
                   MIN_WIDTH |-> 2,
                   PREFERRED_WIDTH |-> 8, WIDTH_SCORE_BONUS |-> 80,
                   BALANCE_BONUS_WEIGHT |-> 6,
                   MAX_THIN_FINGER_LENGTH |-> 1, MIN_BRANCH_END_WIDTH |-> 3 ],
    Industry |-> [ LIGHT_DISTANCE |-> 100, MIN_WIDTH |-> 1,
                   PREFERRED_WIDTH |-> 25, WIDTH_SCORE_BONUS |-> 150,
                   BALANCE_BONUS_WEIGHT |-> 8,
                   MAX_THIN_FINGER_LENGTH |-> 2, MIN_BRANCH_END_WIDTH |-> 2,
                   MIN_CELLS_FOR_WIDTH_CHECK |-> INDUSTRY_MIN_CELLS_FOR_WIDTH_CHECK,
                   MAX_LINE |-> 100 ] ]

\* Config.GROW_PER_GEN_LAYER / MIN_CELLS_LAYER / MAX_CELLS_LAYER: one entry
\* per layer, non-increasing as in the program's tables.
GROW_PER_GEN_LAYER == [i \in 1..LayerCount |-> IF i = 1 THEN GrowBase ELSE GrowBase - 1]
MIN_CELLS_LAYER == [i \in 1..LayerCount |-> MinBase]
MAX_CELLS_LAYER == [i \in 1..LayerCount |-> IF i = 1 THEN MaxBase ELSE MaxBase - 4]

\* ------------------------------------------------------------------------
\* Grid
\* ------------------------------------------------------------------------
Cells == (0..(Cols - 1)) \X (0..(Rows - 1))

\* Grid.__init__: all cells 0
EmptyGrid == [c \in Cells |-> 0]

in_bounds(x, y) == 0 <= x /\ x < Cols /\ 0 <= y /\ y < Rows

get(g, x, y) == IF in_bounds(x, y) THEN g[<<x, y>>] ELSE 0

\* a set that toggles the cell instead of writing the value
set_flips(g, x, y, value) ==
  IF in_bounds(x, y) THEN [g EXCEPT ![<<x, y>>] = 1 - g[<<x, y>>]] ELSE g

set(g, x, y, value) == IF in_bounds(x, y) THEN [g EXCEPT ![<<x, y>>] = value] ELSE g

\* emptiness read through get, which answers 0 outside the grid too
is_empty_by_get(g, x, y) == get(g, x, y) = 0

is_empty(g, x, y) == in_bounds(x, y) /\ g[<<x, y>>] = 0

is_alive(g, x, y) == in_bounds(x, y) /\ g[<<x, y>>] = 1

get_all_alive_cells(g) == {c \in Cells : g[c] = 1}

alive_count(g) == Cardinality(get_all_alive_cells(g))

\* the in-bounds 4-neighbours, in the order Grid.neighbors_4 yields them
neighbors_4_seq(x, y) ==
  SelectSeq(<< <<x + 1, y>>, <<x - 1, y>>, <<x, y + 1>>, <<x, y - 1>> >>,
            LAMBDA n : in_bounds(n[1], n[2]))

neighbors_4(x, y) ==
  {n \in {<<x + 1, y>>, <<x - 1, y>>, <<x, y + 1>>, <<x, y - 1>>} : in_bounds(n[1], n[2])}

neighbors_8(x, y) ==
  {n \in ((x - 1)..(x + 1)) \X ((y - 1)..(y + 1)) : n # <<x, y>> /\ in_bounds(n[1], n[2])}

count_alive_neighbors_4(g, x, y) ==
  Cardinality({n \in neighbors_4(x, y) : is_alive(g, n[1], n[2])})

count_alive_neighbors_8(g, x, y) ==
  Cardinality({n \in neighbors_8(x, y) : is_alive(g, n[1], n[2])})

has_alive_neighbor_4(g, x, y) == \E n \in neighbors_4(x, y) : is_alive(g, n[1], n[2])

\* breadth-first closure of `seen`: the queue loops of the program, one
\* BFS level per unfolding; `passable` is the set of cells the search enters
RECURSIVE Flood(_, _, _)
Flood(seen, frontier, passable) ==
  IF frontier = {} THEN seen
  ELSE LET next == (UNION {neighbors_4(c[1], c[2]) : c \in frontier}
                      \cap passable) \ seen
       IN Flood(seen \cup next, next, passable)

get_component(g, start_x, start_y) ==
  IF ~is_alive(g, start_x, start_y) THEN {}
  ELSE Flood({<<start_x, start_y>>}, {<<start_x, start_y>>},
             get_all_alive_cells(g))

\* ------------------------------------------------------------------------
\* State
\* ------------------------------------------------------------------------
VARIABLES
  \* inputs of the run, fixed once Simulation.run has collected them
  start_groups,        \* Simulation.start_groups: one sequence of seed cells per group
  boundary_query,      \* answer of boundary_curve.Contains per cell centre
  membrane_query,      \* answer of membrane.Contains per cell centre
  outer_line_query,    \* answer of the outer-line distance query per cell centre
  obstacle_cells,      \* Constraints.obstacle_cells (= blocked_cells)
  growth_points,       \* GrowthEngine.growth_points
  layer_functions,     \* Simulation.layer_functions
  layer_count,         \* number of layers of the run
  LAYER_GROWTH_FREEDOM,\* Config.LAYER_GROWTH_FREEDOM in hundredths
  \* state of the run
  pc,                  \* position of the run in _run_simulation_*
  layer_idx,           \* index of the layer being grown
  current_function,    \* GrowthEngine.current_function
  current_group_start, \* GrowthEngine.current_group_start
  permanent_empty,     \* VerticalHolesTracker.permanent_empty
  layers,              \* Simulation.layers
  previous_grids,      \* per-group grids of the layer below (multi-group run)
  grown,               \* per-group grids of this layer that finished growing
  grid,                \* the grid being grown or cleaned
  placed, attempts,    \* locals of the main loop of grow_layer
  extra_attempts,      \* local of the top-up loop of grow_layer
  ex_count, ex_placed, ex_attempts, \* count, placed, attempts of _grow_extra
  prune_cell,          \* x, y of _prune_to_max
  call,                \* a direct call of one GrowthEngine method: <<name, x, y>>
  ret,                 \* what that call returned
  \* GrowthEngine._outside_cache and _outside_cache_hash.  The steps of a run
  \* work with the set _get_outside_cells computes for the grid contents;
  \* the cache is followed through the direct calls of CacheSpec.
  _outside_cache,
  _outside_cache_hash,
  \* the AnalysisSimulation object "sim" of the simple simulation (the first
  \* program of the file) with the locals of its _run_growth; idle while
  \* no simple simulation is run
  sim

cfgvars == <<start_groups, boundary_query, membrane_query, outer_line_query,
             obstacle_cells, growth_points, layer_functions, layer_count,
             LAYER_GROWTH_FREEDOM>>

loopvars == <<placed, attempts, extra_attempts, ex_count, ex_placed, ex_attempts, prune_cell>>

callvars == <<call, ret>>

cachevars == <<_outside_cache, _outside_cache_hash>>

vars == <<cfgvars, pc, layer_idx, current_function, current_group_start,
          permanent_empty, layers, previous_grids, grown, grid, loopvars, callvars,
          cachevars, sim>>

None == <<-1, -1>>

\* "self._outside_cache_hash = None": no value hash() returns (hash()
\* never returns -1)
NoHash == -1

\* Config.STRICT_SUPPORT_THRESHOLD (0.1) in hundredths
STRICT_SUPPORT_THRESHOLD == 10

\* GrowthEngine.start_cells: the groups' cells, flattened in order
RECURSIVE Flatten(_)
Flatten(groups) == IF groups = <<>> THEN <<>> ELSE Head(groups) \o Flatten(Tail(groups))

start_cells == Flatten(start_groups)

SeqToSet(s) == {s[i] : i \in 1..Len(s)}

\* ------------------------------------------------------------------------
\* VerticalHolesTracker
\* ------------------------------------------------------------------------
is_permanent_empty(x, y) == <<x, y>> \in permanent_empty

\* ------------------------------------------------------------------------
\* Constraints
\* ------------------------------------------------------------------------
blocked_cells == obstacle_cells

\* a geometry query that raises is answered "Error"; the except branches
\* of the three predicates turn it into "allowed"
\* a boundary query that raises an error rejects the cell
is_in_boundary_fail_closed(x, y) == boundary_query[<<x, y>>] = "Inside"

is_in_boundary(x, y) ==
  IF boundary_query[<<x, y>>] = "Error" THEN TRUE
  ELSE boundary_query[<<x, y>>] = "Inside"

is_in_membrane(x, y) == membrane_query[<<x, y>>] = "Inside"

is_blocked_by_outer_line(x, y) == outer_line_query[<<x, y>>] = "Near"

is_allowed(x, y) ==
  IF ~(0 <= x /\ x < Cols /\ 0 <= y /\ y < Rows) THEN FALSE
  ELSE IF <<x, y>> \in blocked_cells THEN FALSE
  ELSE IF ~is_in_boundary(x, y) THEN FALSE
  ELSE IF is_in_membrane(x, y) THEN FALSE
  ELSE IF is_blocked_by_outer_line(x, y) THEN FALSE
  ELSE TRUE

\* ------------------------------------------------------------------------
\* GrowthPoint: point attractors/repellers placed on cell centres, with
\* integer strength and radius (in cells).  influence = strength*(1 - d/r)
\* for d <= r and 0 beyond; the comparison with the blockade threshold is
\* carried out on squares, which is exact.
\* ------------------------------------------------------------------------
influence_below(gp, x, y, threshold) ==
  LET d2 == (x - gp.pos[1]) * (x - gp.pos[1]) + (y - gp.pos[2]) * (y - gp.pos[2])
      a  == (threshold - gp.strength) * gp.radius
  IN IF d2 > gp.radius * gp.radius THEN 0 < threshold
     ELSE /\ gp.strength < 0
          /\ a > 0
          /\ a * a > gp.strength * gp.strength * d2

\* ------------------------------------------------------------------------
\* GrowthEngine: presets and outside cells
\* ------------------------------------------------------------------------
\* _apply_function_preset: the preset of the current function
current_preset == FUNCTION_PRESETS[current_function]

\* _get_preset_value for the keys the legality rules read
preset_LIGHT_DISTANCE == current_preset.LIGHT_DISTANCE

preset_MAX_LINE ==
  IF "MAX_LINE" \in DOMAIN current_preset THEN current_preset.MAX_LINE ELSE MAX_LINE

preset_MIN_CELLS_FOR_WIDTH_CHECK ==
  IF "MIN_CELLS_FOR_WIDTH_CHECK" \in DOMAIN current_preset
  THEN current_preset.MIN_CELLS_FOR_WIDTH_CHECK ELSE MIN_CELLS_FOR_WIDTH_CHECK

preset_MAX_THIN_FINGER_LENGTH == current_preset.MAX_THIN_FINGER_LENGTH

preset_MIN_BRANCH_END_WIDTH == current_preset.MIN_BRANCH_END_WIDTH

is_edge(c) == c[1] = 0 \/ c[1] = Cols - 1 \/ c[2] = 0 \/ c[2] = Rows - 1

empty_cells(g) == {c \in Cells : g[c] = 0}

\* _get_outside_cells with the is_empty test of the border loop left out:
\* every border cell starts the flood fill
_get_outside_cells_any_border(g) ==
  LET border == {c \in Cells : is_edge(c)}
  IN Flood(border, border, empty_cells(g))

\* _get_outside_cells: flood fill from every empty border cell through
\* empty cells (the result the content-keyed cache stands for)
_get_outside_cells(g) ==
  LET border == {c \in Cells : is_edge(c) /\ is_empty(g, c[1], c[2])}
  IN Flood(border, border, empty_cells(g))

\* "hash(tuple(tuple(row) for row in grid.cells))": the tuple hash of the
\* interpreter (x = 0x345678; for each item x = (x ^ hash(item)) * mult and
\* mult += 82520 + 2 * items left; x += 97531; -1 is replaced by -2) at a
\* word width of HashBits bits, over the rows of the grid; hash(0) = 0 and
\* hash(1) = 1
GridHash(g) ==
  LET M == 2 ^ HashBits
      RECURSIVE Xor(_, _)
      Xor(a, b) ==
        IF a = 0 THEN b
        ELSE IF b = 0 THEN a
        ELSE ((a + b) % 2) + 2 * Xor(a \div 2, b \div 2)
      RECURSIVE Loop(_, _, _)
      Loop(items, x, mult) ==
        IF items = <<>> THEN x
        ELSE Loop(Tail(items), (Xor(x, Head(items)) * mult) % M,
                  (mult + 82520 + 2 * (Len(items) - 1)) % M)
      TupleHash(items) ==
        LET x == (Loop(items, 3430008 % M, 1000003 % M) + 97531) % M
        IN IF x = M - 1 THEN M - 2 ELSE x
  IN TupleHash([y \in 1..Rows |-> TupleHash([x \in 1..Cols |-> g[<<x - 1, y - 1>>]])])

\* distance_to_true_outside: BFS over all in-bounds cells until a
\* neighbour lies in the outside set
RECURSIVE OutsideBFS(_, _, _, _)
OutsideBFS(outside, seen, frontier, dist) ==
  IF frontier = {} THEN UNREACHABLE
  ELSE LET nbrs == UNION {neighbors_4(c[1], c[2]) : c \in frontier}
       IN IF nbrs \cap outside # {} THEN dist + 1
          ELSE OutsideBFS(outside, seen \cup nbrs, nbrs \ seen, dist + 1)

\* the distance, given the outside set of the grid (the set the cache of
\* _get_outside_cells holds while the grid content stays the same)
DistanceTo(outside, x, y) ==
  IF <<x, y>> \in outside THEN 0
  ELSE OutsideBFS(outside, {<<x, y>>}, {<<x, y>>}, 0)

distance_to_true_outside(g, x, y) == DistanceTo(_get_outside_cells(g), x, y)

\* ------------------------------------------------------------------------
\* GrowthEngine: legality checks.  Each check is the code's sequence of
\* Grid.set calls around its test and yields [ok, cells]: the answer and
\* the grid contents it returns with.
\* ------------------------------------------------------------------------
Result(ok, g) == [ok |-> ok, cells |-> g]

\* first element of a sequence of cells that is alive, or None
FirstAlive(g, cs) ==
  IF \E i \in 1..Len(cs) : is_alive(g, cs[i][1], cs[i][2])
  THEN cs[CHOOSE i \in 1..Len(cs) :
            /\ is_alive(g, cs[i][1], cs[i][2])
            /\ \A j \in 1..(i - 1) : ~is_alive(g, cs[j][1], cs[j][2])]
  ELSE None

\* _check_connectivity without the "grid.set(x, y, 0)" after the test
_check_connectivity_no_reset(g, x, y) ==
  LET check_cells == IF current_group_start # <<>> THEN current_group_start ELSE start_cells
      start == FirstAlive(g, check_cells)
  IN IF check_cells = <<>> THEN Result(TRUE, g)
     ELSE IF start = None THEN Result(TRUE, g)
     ELSE LET g1 == set(g, x, y, 1)
              component == get_component(g1, start[1], start[2])
          IN Result(<<x, y>> \in component, g1)

_check_connectivity(g, x, y) ==
  LET check_cells == IF current_group_start # <<>> THEN current_group_start ELSE start_cells
      start == FirstAlive(g, check_cells)
  IN IF check_cells = <<>> THEN Result(TRUE, g)
     ELSE IF start = None THEN Result(TRUE, g)
     ELSE LET g1 == set(g, x, y, 1)
              component == get_component(g1, start[1], start[2])
          IN Result(<<x, y>> \in component, set(g1, x, y, 0))

\* run of alive cells through (x, y) along (dx, dy), the cell itself included
RECURSIVE RunLength(_, _, _, _, _)
RunLength(g, x, y, dx, dy) ==
  IF is_alive(g, x + dx, y + dy) THEN 1 + RunLength(g, x + dx, y + dy, dx, dy) ELSE 0

count_h(g, x, y) == 1 + RunLength(g, x, y, -1, 0) + RunLength(g, x, y, 1, 0)

count_v(g, x, y) == 1 + RunLength(g, x, y, 0, -1) + RunLength(g, x, y, 0, 1)

\* reads Config.MIN_WIDTH, not the preset
_check_min_width(g, x, y) ==
  IF MIN_WIDTH <= 1 THEN TRUE
  ELSE count_h(g, x, y) >= MIN_WIDTH \/ count_v(g, x, y) >= MIN_WIDTH

_check_max_line(g, x, y) ==
  IF preset_MAX_LINE >= MAX_LINE_CUTOVER THEN TRUE
  ELSE count_h(g, x, y) <= preset_MAX_LINE \/ count_v(g, x, y) <= preset_MAX_LINE

\* _can_reach_edge: depth-bounded BFS through empty cells, level by level
RECURSIVE ReachEdgeBFS(_, _, _, _, _)
ReachEdgeBFS(g, seen, frontier, depth, max_depth) ==
  IF frontier = {} THEN FALSE
  ELSE IF depth >= max_depth THEN TRUE
  ELSE LET nbrs == UNION {neighbors_4(c[1], c[2]) : c \in frontier}
       IN IF \E n \in nbrs : is_edge(n) /\ is_empty(g, n[1], n[2]) THEN TRUE
          ELSE LET next == {n \in nbrs : n \notin seen /\ is_empty(g, n[1], n[2])}
               IN ReachEdgeBFS(g, seen \cup next, next, depth + 1, max_depth)

_can_reach_edge(g, start_x, start_y, max_depth) ==
  IF is_edge(<<start_x, start_y>>) THEN TRUE
  ELSE ReachEdgeBFS(g, {<<start_x, start_y>>}, {<<start_x, start_y>>}, 0, max_depth)

\* a hole test that never finds a hole
_would_create_internal_hole_never(g, x, y) == Result(FALSE, g)

\* ok = "placing (x, y) would create an internal hole"
_would_create_internal_hole(g, x, y) ==
  LET empty_neighbors == {n \in neighbors_4(x, y) : is_empty(g, n[1], n[2])}
  IN IF empty_neighbors = {} THEN Result(FALSE, g)
     ELSE LET g1 == set(g, x, y, 1)
          IN Result(\E n \in empty_neighbors : ~_can_reach_edge(g1, n[1], n[2], REACH_MAX_DEPTH),
                    set(g1, x, y, 0))

\* _check_light_distance without the loop over the alive neighbours
_check_light_distance_candidate_only(g, x, y) ==
  IF preset_LIGHT_DISTANCE >= FREE_FORM_CUTOVER THEN Result(TRUE, g)
  ELSE LET hole == _would_create_internal_hole(g, x, y)
       IN IF hole.ok THEN Result(FALSE, hole.cells)
          ELSE LET g1 == set(hole.cells, x, y, 1)
                   outside == _get_outside_cells(g1)
               IN Result(DistanceTo(outside, x, y) <= preset_LIGHT_DISTANCE,
                         set(g1, x, y, 0))

_check_light_distance(g, x, y) ==
  IF preset_LIGHT_DISTANCE >= FREE_FORM_CUTOVER THEN Result(TRUE, g)
  ELSE LET hole == _would_create_internal_hole(g, x, y)
       IN IF hole.ok THEN Result(FALSE, hole.cells)
          ELSE LET g1 == set(hole.cells, x, y, 1)
                   outside == _get_outside_cells(g1)
                   ok == /\ DistanceTo(outside, x, y) <= preset_LIGHT_DISTANCE
                         /\ \A n \in neighbors_4(x, y) :
                              is_alive(g1, n[1], n[2]) =>
                                DistanceTo(outside, n[1], n[2]) <= preset_LIGHT_DISTANCE
               IN Result(ok, set(g1, x, y, 0))

\* _count_perpendicular_width
_count_perpendicular_width(g, x, y, direction_from) ==
  LET dx == x - direction_from[1]
      dy == y - direction_from[2]
  IN IF dx = 0 /\ dy = 0 THEN 1
     ELSE IF dx # 0 THEN 1 + RunLength(g, x, y, 0, -1) + RunLength(g, x, y, 0, 1)
     ELSE 1 + RunLength(g, x, y, -1, 0) + RunLength(g, x, y, 1, 0)

\* first alive 4-neighbour of c other than `previous`, in neighbors_4 order
NextInChain(g, c, previous) ==
  LET ns == SelectSeq(neighbors_4_seq(c[1], c[2]),
                      LAMBDA n : is_alive(g, n[1], n[2]) /\ n # previous)
  IN IF ns = <<>> THEN None ELSE ns[1]

\* the walk of _check_branch_end_width: the thin length it ends with
RECURSIVE ThinWalk(_, _, _, _)
ThinWalk(g, current, previous, thin_length) ==
  IF _count_perpendicular_width(g, current[1], current[2], previous)
       >= preset_MIN_BRANCH_END_WIDTH
  THEN thin_length
  ELSE IF thin_length + 1 > preset_MAX_THIN_FINGER_LENGTH THEN thin_length + 1
  ELSE LET next_cell == NextInChain(g, current, previous)
       IN IF next_cell = None THEN thin_length + 1
          ELSE ThinWalk(g, next_cell, current, thin_length + 1)

\* _check_branch_end_width with thin_length starting at 0: the new cell is
\* not counted
_check_branch_end_width_new_cell_uncounted(g, x, y) ==
  IF alive_count(g) < preset_MIN_CELLS_FOR_WIDTH_CHECK THEN Result(TRUE, g)
  ELSE IF preset_MIN_BRANCH_END_WIDTH <= 1 THEN Result(TRUE, g)
  ELSE LET g1 == set(g, x, y, 1)
           neighbor_pos == NextInChain(g1, <<x, y>>, None)
       IN IF count_alive_neighbors_4(g1, x, y) >= 2 THEN Result(TRUE, set(g1, x, y, 0))
          ELSE IF neighbor_pos = None THEN Result(FALSE, set(g1, x, y, 0))
          ELSE Result(ThinWalk(g1, neighbor_pos, <<x, y>>, 0) <= preset_MAX_THIN_FINGER_LENGTH,
                      set(g1, x, y, 0))

_check_branch_end_width(g, x, y) ==
  IF alive_count(g) < preset_MIN_CELLS_FOR_WIDTH_CHECK THEN Result(TRUE, g)
  ELSE IF preset_MIN_BRANCH_END_WIDTH <= 1 THEN Result(TRUE, g)
  ELSE LET g1 == set(g, x, y, 1)
           neighbor_pos == NextInChain(g1, <<x, y>>, None)
       IN IF count_alive_neighbors_4(g1, x, y) >= 2 THEN Result(TRUE, set(g1, x, y, 0))
          ELSE IF neighbor_pos = None THEN Result(FALSE, set(g1, x, y, 0))
          ELSE Result(ThinWalk(g1, neighbor_pos, <<x, y>>, 1) <= preset_MAX_THIN_FINGER_LENGTH,
                      set(g1, x, y, 0))

\* the shape rules of can_place, applied in order to the cells the
\* connectivity check returned with
ShapeRules(g, x, y) ==
  IF ~_check_min_width(g, x, y) THEN Result(FALSE, g)
  ELSE IF ~_check_max_line(g, x, y) THEN Result(FALSE, g)
  ELSE LET light == _check_light_distance(g, x, y)
       IN IF ~light.ok THEN light
          ELSE _check_branch_end_width(light.cells, x, y)

\* can_place without the free-form return: the shape rules apply to every
\* function
can_place_no_cutover(g, x, y, lower_grid) ==
  IF ~is_allowed(x, y) THEN Result(FALSE, g)
  ELSE IF is_permanent_empty(x, y) THEN Result(FALSE, g)
  ELSE IF is_alive(g, x, y) THEN Result(FALSE, g)
  ELSE IF ~has_alive_neighbor_4(g, x, y) THEN Result(FALSE, g)
  ELSE IF /\ lower_grid # <<>>
          /\ LAYER_GROWTH_FREEDOM < STRICT_SUPPORT_THRESHOLD
          /\ ~is_alive(lower_grid, x, y) THEN Result(FALSE, g)
  ELSE LET conn == _check_connectivity(g, x, y)
       IN IF ~conn.ok THEN conn
          ELSE ShapeRules(conn.cells, x, y)

\* can_place without the strict-support test
can_place_no_support(g, x, y, lower_grid) ==
  IF ~is_allowed(x, y) THEN Result(FALSE, g)
  ELSE IF is_permanent_empty(x, y) THEN Result(FALSE, g)
  ELSE IF is_alive(g, x, y) THEN Result(FALSE, g)
  ELSE IF ~has_alive_neighbor_4(g, x, y) THEN Result(FALSE, g)
  ELSE LET conn == _check_connectivity(g, x, y)
       IN IF ~conn.ok THEN conn
          ELSE IF preset_LIGHT_DISTANCE >= FREE_FORM_CUTOVER THEN Result(TRUE, conn.cells)
          ELSE ShapeRules(conn.cells, x, y)

\* can_place with the free-form return placed in front of the neighbour,
\* support and connectivity tests
can_place_freeform_first(g, x, y, lower_grid) ==
  IF ~is_allowed(x, y) THEN Result(FALSE, g)
  ELSE IF is_permanent_empty(x, y) THEN Result(FALSE, g)
  ELSE IF is_alive(g, x, y) THEN Result(FALSE, g)
  ELSE IF preset_LIGHT_DISTANCE >= FREE_FORM_CUTOVER THEN Result(TRUE, g)
  ELSE IF ~has_alive_neighbor_4(g, x, y) THEN Result(FALSE, g)
  ELSE IF /\ lower_grid # <<>>
          /\ LAYER_GROWTH_FREEDOM < STRICT_SUPPORT_THRESHOLD
          /\ ~is_alive(lower_grid, x, y) THEN Result(FALSE, g)
  ELSE LET conn == _check_connectivity(g, x, y)
       IN IF ~conn.ok THEN conn
          ELSE ShapeRules(conn.cells, x, y)

can_place(g, x, y, lower_grid) ==
  IF ~is_allowed(x, y) THEN Result(FALSE, g)
  ELSE IF is_permanent_empty(x, y) THEN Result(FALSE, g)
  ELSE IF is_alive(g, x, y) THEN Result(FALSE, g)
  ELSE IF ~has_alive_neighbor_4(g, x, y) THEN Result(FALSE, g)
  ELSE IF /\ lower_grid # <<>>
          /\ LAYER_GROWTH_FREEDOM < STRICT_SUPPORT_THRESHOLD
          /\ ~is_alive(lower_grid, x, y) THEN Result(FALSE, g)
  ELSE LET conn == _check_connectivity(g, x, y)
       IN IF ~conn.ok THEN conn
          ELSE IF preset_LIGHT_DISTANCE >= FREE_FORM_CUTOVER THEN Result(TRUE, conn.cells)
          ELSE ShapeRules(conn.cells, x, y)

\* score_candidate: ok = "the score is finite" (no growth point vetoes the
\* cell); the edge-distance term places the cell tentatively and takes it
\* back, a veto returns before that
score_candidate(g, x, y) ==
  IF \E gp \in growth_points : influence_below(gp, x, y, HARD_BLOCKADE_THRESHOLD)
  THEN Result(FALSE, g)
  ELSE Result(TRUE, set(set(g, x, y, 1), x, y, 0))

\* _compute_obstacle_penalty in tenths: -10.0 for an obstacle cell, else
\* -0.5 for each of the four neighbour coordinates that is an obstacle cell
_compute_obstacle_penalty(x, y) ==
  IF <<x, y>> \in obstacle_cells THEN -100
  ELSE -5 * Cardinality({n \in {<<x + 1, y>>, <<x - 1, y>>, <<x, y + 1>>, <<x, y - 1>>} :
                           n \in obstacle_cells})

\* term 7 of score_candidate, "score += obstacle_penalty * WEIGHT_OBSTACLE":
\* what the term adds to the score, in hundredths
ObstacleTerm(x, y) == _compute_obstacle_penalty(x, y) * WEIGHT_OBSTACLE

\* a Grid with dimensions of its own: cols, rows and the cells
SizedGrid(cols, rows, cells) == [cols |-> cols, rows |-> rows, cells |-> cells]

\* Grid.is_alive on such a grid
SizedIsAlive(G, x, y) ==
  /\ 0 <= x /\ x < G.cols /\ 0 <= y /\ y < G.rows
  /\ G.cells[<<x, y>>] = 1

\* the counting loops of _compute_width_score: the alive cells that follow
\* (x, y) along (dx, dy) without a gap
RECURSIVE SizedRun(_, _, _, _, _)
SizedRun(G, x, y, dx, dy) ==
  IF SizedIsAlive(G, x + dx, y + dy) THEN 1 + SizedRun(G, x + dx, y + dy, dx, dy) ELSE 0

\* the score _compute_width_score derives from the two counts, as the exact
\* fraction <<numerator, denominator>> with the denominator 100 * max_count.
\* min(count_h, count_v) / max_count is a floor division of integers under
\* a Python 2 interpreter and a true division under Python 3.
WidthScoreOf(cnt_h, cnt_v, floor_division) ==
  LET min_width == current_preset.MIN_WIDTH
      preferred_width == current_preset.PREFERRED_WIDTH
      width_bonus == current_preset.WIDTH_SCORE_BONUS
      balance_weight == current_preset.BALANCE_BONUS_WEIGHT
      \* twice the score of one direction, in tenths
      half(count) ==
        IF count < min_width THEN -(width_bonus * (min_width - count))
        ELSE IF count <= preferred_width THEN width_bonus * (count - min_width)
        ELSE width_bonus * (preferred_width - min_width)
      max_count == IF cnt_h >= cnt_v THEN cnt_h ELSE cnt_v
      min_count == IF cnt_h <= cnt_v THEN cnt_h ELSE cnt_v
      \* balance_bonus * 100 * max_count
      balance ==
        IF cnt_h >= 2 /\ cnt_v >= 2 /\ max_count > 0
        THEN IF floor_division
             THEN width_bonus * (min_count \div max_count) * balance_weight * max_count
             ELSE width_bonus * min_count * balance_weight
        ELSE 0
  IN <<(half(cnt_h) + half(cnt_v)) * 5 * max_count + balance, 100 * max_count>>

\* _compute_width_score with the horizontal count used for both directions
_compute_width_score_h_twice(G, x, y, floor_division) ==
  LET cnt_h == 1 + SizedRun(G, x, y, -1, 0) + SizedRun(G, x, y, 1, 0)
  IN WidthScoreOf(cnt_h, cnt_h, floor_division)

_compute_width_score(G, x, y, floor_division) ==
  LET cnt_h == 1 + SizedRun(G, x, y, -1, 0) + SizedRun(G, x, y, 1, 0)
      cnt_v == 1 + SizedRun(G, x, y, 0, -1) + SizedRun(G, x, y, 0, 1)
  IN WidthScoreOf(cnt_h, cnt_v, floor_division)

get_frontier_candidates(g) ==
  {c \in UNION {((a[1] - FRONTIER_RADIUS)..(a[1] + FRONTIER_RADIUS))
                  \X ((a[2] - FRONTIER_RADIUS)..(a[2] + FRONTIER_RADIUS))
                : a \in get_all_alive_cells(g)} :
     /\ is_empty(g, c[1], c[2])
     /\ is_allowed(c[1], c[2])
     /\ ~is_permanent_empty(c[1], c[2])}

\* ------------------------------------------------------------------------
\* GrowthEngine: one pass over the frontier candidates
\* ------------------------------------------------------------------------
\* row-major rank of a cell (the order of get_all_alive_cells)
Rank(c) == c[2] * Cols + c[1]

\* a set of cells as a sequence in row-major order
RECURSIVE InOrder(_)
InOrder(S) ==
  IF S = {} THEN <<>>
  ELSE LET c == CHOOSE m \in S : \A o \in S : Rank(m) <= Rank(o)
       IN <<c>> \o InOrder(S \ {c})

\* the scoring loop of grow_layer over a list of candidates: can_place,
\* then score_candidate for the cells it accepts.  scored = the cells left
\* after the -inf filter; cells = the grid the loop returns with.  (The
\* program walks list(set) in an unspecified order; the model walks the
\* candidates in row-major order.)
RECURSIVE ScoreAll(_, _, _, _)
ScoreAll(g, cands, lower_grid, scored) ==
  IF cands = <<>> THEN [scored |-> scored, cells |-> g]
  ELSE LET c == Head(cands)
           cp == can_place(g, c[1], c[2], lower_grid)
       IN IF ~cp.ok THEN ScoreAll(cp.cells, Tail(cands), lower_grid, scored)
          ELSE LET sc == score_candidate(cp.cells, c[1], c[2])
               IN ScoreAll(sc.cells, Tail(cands), lower_grid,
                           IF sc.ok THEN scored \cup {c} ELSE scored)

\* the cells the weighted draw can return: every weight is positive
\* (0.001, NEGATIVE_SCORE_WEIGHT or exp(s/2)), so each entry of the ranked
\* window scored[:20] can be drawn.  The grids of the model have fewer than
\* TOP_K cells (WindowCoversGrid), so the window holds the whole list.
DrawSet(scored) == scored

WindowCoversGrid == Cols * Rows <= TOP_K

\* the calls of can_place one iteration of _grow_extra makes on cells it
\* rejects: the grid they leave behind
RECURSIVE RejectAll(_, _, _)
RejectAll(g, cands, lower_grid) ==
  IF cands = <<>> THEN g
  ELSE RejectAll(can_place(g, Head(cands)[1], Head(cands)[2], lower_grid).cells,
                 Tail(cands), lower_grid)

\* ------------------------------------------------------------------------
\* Per-layer configuration and helpers of the run
\* ------------------------------------------------------------------------
\* layer tables with the code's fallback to the last entry
LayerEntry(table, layer_index) ==
  IF layer_index < Len(table) THEN table[layer_index + 1] ELSE table[Len(table)]

grow_count == LayerEntry(GROW_PER_GEN_LAYER, layer_idx)
min_cells == LayerEntry(MIN_CELLS_LAYER, layer_idx)
max_cells == LayerEntry(MAX_CELLS_LAYER, layer_idx)

num_groups == Len(start_groups)

multi_group == num_groups # 1

group_idx == Len(grown) + 1

\* lower_grid of the group being grown (<<>> stands for None)
lower_grid ==
  IF layer_idx = 0 THEN <<>>
  ELSE IF multi_group THEN previous_grids[group_idx]
  ELSE layers[Len(layers)]

\* set every cell of a set to a value
SetAll(g, S, value) == [c \in Cells |-> IF c \in S THEN value ELSE g[c]]

\* a fresh grid with the seed cells of one group: layer 0 sets them all,
\* later layers only the allowed ones
SeedGrid(group_cells, layer_index) ==
  SetAll(EmptyGrid,
         {c \in SeqToSet(group_cells) :
            in_bounds(c[1], c[2]) /\ (layer_index = 0 \/ is_allowed(c[1], c[2]))},
         1)

\* the hole mask writing 1 where it has to write 0
apply_holes_writes_one(g) == SetAll(g, permanent_empty \cap Cells, 1)

\* "for (hx, hy) in vertical_holes_tracker.get_all(): grid.set(hx, hy, 0)"
apply_holes(g) == SetAll(g, permanent_empty \cap Cells, 0)

remove_isolated(g) ==
  SetAll(g, {c \in get_all_alive_cells(g) :
               count_alive_neighbors_4(g, c[1], c[2]) = 0 /\ c \notin SeqToSet(start_cells)}, 0)

enforce_start_cells(g) ==
  SetAll(g, {c \in SeqToSet(start_cells) : in_bounds(c[1], c[2]) /\ is_allowed(c[1], c[2])}, 1)

\* sync_vertical_holes_from_base without the four-sides test: every empty
\* cell of the bounding box is added
sync_vertical_holes_whole_box(base_grid) ==
  LET all_alive == get_all_alive_cells(base_grid)
  IN IF preset_LIGHT_DISTANCE >= FREE_FORM_CUTOVER THEN {}
     ELSE IF all_alive = {} THEN {}
     ELSE {c \in Cells :
             /\ \E a \in all_alive : a[1] <= c[1]
             /\ \E a \in all_alive : a[1] >= c[1]
             /\ \E a \in all_alive : a[2] <= c[2]
             /\ \E a \in all_alive : a[2] >= c[2]
             /\ ~is_alive(base_grid, c[1], c[2])}

\* sync_vertical_holes_from_base: the cells it adds to the tracker
sync_vertical_holes_from_base(base_grid) ==
  LET all_alive == get_all_alive_cells(base_grid)
  IN IF preset_LIGHT_DISTANCE >= FREE_FORM_CUTOVER THEN {}
     ELSE IF all_alive = {} THEN {}
     ELSE {c \in Cells :
             /\ \E a \in all_alive : a[1] <= c[1]
             /\ \E a \in all_alive : a[1] >= c[1]
             /\ \E a \in all_alive : a[2] <= c[2]
             /\ \E a \in all_alive : a[2] >= c[2]
             /\ ~is_alive(base_grid, c[1], c[2])
             /\ \E nx \in 0..(c[1] - 1) : is_alive(base_grid, nx, c[2])
             /\ \E nx \in (c[1] + 1)..(Cols - 1) : is_alive(base_grid, nx, c[2])
             /\ \E ny \in 0..(c[2] - 1) : is_alive(base_grid, c[1], ny)
             /\ \E ny \in (c[2] + 1)..(Rows - 1) : is_alive(base_grid, c[1], ny)}

\* sync_holes_from_previous_layer with the free-form return of
\* sync_vertical_holes_from_base in front
sync_holes_skips_free_form(current_grid) ==
  LET all_alive == get_all_alive_cells(current_grid)
      outside_cells == _get_outside_cells(current_grid)
  IN IF preset_LIGHT_DISTANCE >= FREE_FORM_CUTOVER THEN {}
     ELSE IF all_alive = {} THEN {}
     ELSE {c \in Cells :
             /\ \E a \in all_alive : a[1] <= c[1]
             /\ \E a \in all_alive : a[1] >= c[1]
             /\ \E a \in all_alive : a[2] <= c[2]
             /\ \E a \in all_alive : a[2] >= c[2]
             /\ ~is_alive(current_grid, c[1], c[2])
             /\ c \notin outside_cells}

\* sync_holes_from_previous_layer: the cells it adds to the tracker
sync_holes_from_previous_layer(current_grid) ==
  LET all_alive == get_all_alive_cells(current_grid)
      outside_cells == _get_outside_cells(current_grid)
  IN IF all_alive = {} THEN {}
     ELSE {c \in Cells :
             /\ \E a \in all_alive : a[1] <= c[1]
             /\ \E a \in all_alive : a[1] >= c[1]
             /\ \E a \in all_alive : a[2] <= c[2]
             /\ \E a \in all_alive : a[2] >= c[2]
             /\ ~is_alive(current_grid, c[1], c[2])
             /\ c \notin outside_cells}

\* _prune_to_max: the non-seed alive cells and the one the stable sort by
\* neighbour count puts first
PruneCandidates(g) == get_all_alive_cells(g) \ SeqToSet(start_cells)

PruneChoice(g) ==
  CHOOSE c \in PruneCandidates(g) :
    \A o \in PruneCandidates(g) :
      \/ count_alive_neighbors_4(g, c[1], c[2]) < count_alive_neighbors_4(g, o[1], o[2])
      \/ /\ count_alive_neighbors_4(g, c[1], c[2]) = count_alive_neighbors_4(g, o[1], o[2])
         /\ Rank(c) <= Rank(o)

\* the connectivity test of _prune_to_max on the grid with the cell removed:
\* TRUE when the removal has to be taken back
PruneBreaks(g) ==
  LET start == FirstAlive(g, start_cells)
  IN /\ start_cells # <<>>
     /\ start # None
     /\ Cardinality(get_component(g, start[1], start[2])) # alive_count(g)

\* ------------------------------------------------------------------------
\* Inputs of a run (what Simulation.run collects before _run_simulation)
\* ------------------------------------------------------------------------
AllInside == [c \in Cells |-> "Inside"]

AllOutside == [c \in Cells |-> "Outside"]

AllFar == [c \in Cells |-> "Far"]

\* answers of a geometry query that is "Inside" on a set of cells
InsideOn(S) == [c \in Cells |-> IF c \in S THEN "Inside" ELSE "Outside"]

TopRow == {c \in Cells : c[2] = 0}

BottomRow == {c \in Cells : c[2] = Rows - 1}

LastCol == {c \in Cells : c[1] = Cols - 1}

\* The runs the model starts: what the user hands to Simulation.run.
\*   groups      clicked cell and number of start cells (1, 4 or 9) per group
\*   boundary, membrane, outer_line   answers of the geometry queries
\*   obstacles   cells rasterized by add_obstacle
\*   gps         growth points
\*   freedom     LAYER_GROWTH_FREEDOM in hundredths
\*   layers      number of layers asked for (UI.choose_layer_config)

\* one seed in a corner of an unconstrained grid, one layer
OpenRun ==
  [ groups |-> << <<0, 0, 1>> >>,
    boundary |-> AllInside, membrane |-> AllOutside, outer_line |-> AllFar,
    obstacles |-> {}, gps |-> {}, freedom |-> 30, layers |-> 1 ]

\* the 4x3 cells in the first corner of the grid
Window == {c \in Cells : c[1] <= 3 /\ c[2] <= 2}

\* a 3x3 block clicked on the left border of a boundary around the window:
\* two columns of seeds and two free columns, two layers
BlockRun ==
  [ groups |-> << <<0, 1, 9>> >>,
    boundary |-> InsideOn(Window),
    membrane |-> AllOutside, outer_line |-> AllFar,
    obstacles |-> {}, gps |-> {}, freedom |-> 30, layers |-> 2 ]

\* a strip: only the top row and one detached cell lie inside the boundary
\* (one query fails); a repeller sits on the end of the strip
StripRun ==
  [ groups |-> << <<0, 0, 1>> >>,
    boundary |-> [InsideOn(TopRow) EXCEPT ![<<Cols - 2, Rows - 1>>] = "Error"],
    membrane |-> AllOutside, outer_line |-> AllFar,
    obstacles |-> {},
    gps |-> {[pos |-> <<Cols - 1, 0>>, strength |-> -10, radius |-> 1]},
    freedom |-> 30, layers |-> LayerCount ]

\* a 3x3 block whose middle row lies in a membrane: two rows of seeds that
\* do not touch
SplitRun ==
  [ groups |-> << <<1, 1, 9>> >>,
    boundary |-> AllInside,
    membrane |-> InsideOn({c \in Cells : c[2] = 1 /\ c[1] < Cols - 1}),
    outer_line |-> AllFar,
    obstacles |-> {}, gps |-> {}, freedom |-> 30, layers |-> LayerCount ]

\* two groups on the top and bottom row; the boundary leaves one free cell
\* between them and the last column, one cell is near an outer line
TwoGroupRun ==
  [ groups |-> << <<0, 0, 1>>, <<0, Rows - 1, 1>> >>,
    boundary |-> InsideOn(TopRow \cup BottomRow \cup LastCol \cup {<<1, 1>>}),
    membrane |-> AllOutside,
    outer_line |-> [AllFar EXCEPT ![<<2, Rows - 1>>] = "Near"],
    obstacles |-> {}, gps |-> {}, freedom |-> 0, layers |-> LayerCount ]

\* a 3x3 block around <<1, 1>> and a single cell in the last column, with a
\* membrane over the centre, the cell to its right and the border cell
\* below that one: the seeds leave a cavity that stays open to the border,
\* one layer
CavityRun ==
  [ groups |-> << <<1, 1, 9>>, <<Cols - 1, 1, 1>> >>,
    boundary |-> AllInside,
    membrane |-> InsideOn({<<1, 1>>, <<2, 1>>, <<2, 2>>}),
    outer_line |-> AllFar,
    obstacles |-> {}, gps |-> {}, freedom |-> 30, layers |-> 1 ]

\* the block run in strict-support mode: freedom below the threshold
StrictRun == [BlockRun EXCEPT !.freedom = 0]

\* the block run with obstacles chosen after the start block: one lies over
\* a seed in the corner, one over a free cell
ObstacleRun == [BlockRun EXCEPT !.obstacles = {<<0, 0>>, <<2, 1>>}]

Scenarios ==
  {OpenRun, BlockRun, StripRun, SplitRun, TwoGroupRun, CavityRun, StrictRun, ObstacleRun}

FunctionChoices == {"Living", "Industry"}

\* the positions of a start block in the order the UI generates them
BlockPositions(x, y, count) ==
  IF count = 1 THEN << <<x, y>> >>
  ELSE IF count = 4 THEN << <<x, y>>, <<x + 1, y>>, <<x, y + 1>>, <<x + 1, y + 1>> >>
  ELSE << <<x - 1, y - 1>>, <<x, y - 1>>, <<x + 1, y - 1>>,
          <<x - 1, y>>,     <<x, y>>,     <<x + 1, y>>,
          <<x - 1, y + 1>>, <<x, y + 1>>, <<x + 1, y + 1>> >>

\* Constraints.is_allowed at the time the start groups are chosen: the
\* obstacles are added afterwards, so blocked_cells is still empty
AllowedBeforeObstacles(geo, c) ==
  /\ in_bounds(c[1], c[2])
  /\ geo.boundary[c] \in {"Inside", "Error"}
  /\ geo.membrane[c] # "Inside"
  /\ geo.outer_line[c] # "Near"

ValidStartCells(geo, gc) ==
  SelectSeq(BlockPositions(gc[1], gc[2], gc[3]), LAMBDA c : AllowedBeforeObstacles(geo, c))

Init ==
  /\ \E sc \in Scenarios :
       /\ boundary_query = sc.boundary
       /\ membrane_query = sc.membrane
       /\ outer_line_query = sc.outer_line
       /\ start_groups = SelectSeq([i \in 1..Len(sc.groups) |-> ValidStartCells(sc, sc.groups[i])],
                                   LAMBDA grp : grp # <<>>)
       /\ obstacle_cells = sc.obstacles
       /\ growth_points = sc.gps
       /\ LAYER_GROWTH_FREEDOM = sc.freedom
       /\ layer_count = sc.layers
  /\ start_groups # <<>>
  /\ layer_functions \in [1..layer_count -> FunctionChoices]
  /\ pc = "start_layer"
  /\ layer_idx = 0
  /\ current_function = "Living"
  /\ current_group_start = <<>>
  /\ permanent_empty = {}
  /\ layers = <<>>
  /\ previous_grids = <<>>
  /\ grown = <<>>
  /\ grid = EmptyGrid
  /\ placed = 0 /\ attempts = 0 /\ extra_attempts = 0
  /\ ex_count = 0 /\ ex_placed = 0 /\ ex_attempts = 0
  /\ prune_cell = None
  /\ call = <<>> /\ ret = FALSE
  /\ _outside_cache = {} /\ _outside_cache_hash = NoHash
  /\ sim = [pc |-> "idle"]

\* ------------------------------------------------------------------------
\* The run: _run_simulation_single_group / _run_simulation_multi_group
\* ------------------------------------------------------------------------
ResetLoops ==
  /\ placed' = 0 /\ attempts' = 0 /\ extra_attempts' = 0
  /\ ex_count' = 0 /\ ex_placed' = 0 /\ ex_attempts' = 0
  /\ prune_cell' = None

\* start of a layer: set the function, create the grid of the first group
\* with its start cells; the single-group run also applies the tracked
\* holes before growing (layers >= 1)
StartLayer ==
  /\ pc = "start_layer"
  /\ current_function' = layer_functions[layer_idx + 1]
  /\ grown' = <<>>
  /\ IF multi_group
     THEN /\ current_group_start' = start_groups[1]
          /\ grid' = SeedGrid(start_groups[1], layer_idx)
     ELSE /\ current_group_start' = <<>>
          /\ grid' = IF layer_idx = 0 THEN SeedGrid(start_cells, layer_idx)
                     ELSE apply_holes(SeedGrid(start_cells, layer_idx))
  /\ pc' = "grow"
  /\ ResetLoops
  /\ UNCHANGED <<sim, cfgvars, callvars, cachevars, layer_idx, permanent_empty, layers, previous_grids>>

\* main loop of grow_layer / grow_layer_multi_group ----------------------
\* the loop condition with "<=" for "<" on the quota
GrowLoopOn_off_by_one == placed <= grow_count /\ attempts < MaxGrowAttempts

GrowLoopOn == placed < grow_count /\ attempts < MaxGrowAttempts

\* one iteration of the loop: the candidates are scored; the cell drawn from
\* the ranked window is set, or no candidate has a finite score and the
\* iteration counts as a failed attempt
GrowIteration ==
  /\ pc = "grow"
  /\ GrowLoopOn
  /\ get_frontier_candidates(grid) # {}
  /\ LET ev == ScoreAll(grid, InOrder(get_frontier_candidates(grid)), lower_grid, {})
     IN IF ev.scored = {}
        THEN /\ grid' = ev.cells
             /\ placed' = placed
             /\ attempts' = attempts + 1
        ELSE \E pick \in DrawSet(ev.scored) :
               /\ grid' = set(ev.cells, pick[1], pick[2], 1)
               /\ placed' = placed + 1
               /\ attempts' = 0
  /\ UNCHANGED <<sim, cfgvars, callvars, cachevars, pc, layer_idx, current_function, current_group_start,
                 permanent_empty, layers, previous_grids, grown,
                 extra_attempts, ex_count, ex_placed, ex_attempts, prune_cell>>

\* the loop ends: quota reached, attempts used up, or no frontier candidate
GrowExit ==
  /\ pc = "grow"
  /\ ~GrowLoopOn \/ get_frontier_candidates(grid) = {}
  /\ pc' = "extra"
  /\ extra_attempts' = 0
  /\ UNCHANGED <<sim, cfgvars, callvars, cachevars, layer_idx, current_function, current_group_start,
                 permanent_empty, layers, previous_grids, grown, grid,
                 placed, attempts, ex_count, ex_placed, ex_attempts, prune_cell>>

\* top-up loop of grow_layer and _grow_extra ------------------------------
ExtraLoopOn == alive_count(grid) < min_cells /\ extra_attempts < MaxExtraOuter

\* "grew = self._grow_extra(grid, need, ...)": the call
ExtraCall ==
  /\ pc = "extra"
  /\ ExtraLoopOn
  /\ pc' = "grow_extra"
  /\ ex_count' = min_cells - alive_count(grid)
  /\ ex_placed' = 0
  /\ ex_attempts' = 0
  /\ UNCHANGED <<sim, cfgvars, callvars, cachevars, layer_idx, current_function, current_group_start,
                 permanent_empty, layers, previous_grids, grown, grid,
                 placed, attempts, extra_attempts, prune_cell>>

ExtraInnerOn == ex_placed < ex_count /\ ex_attempts < MaxExtraInner

\* the size of the window candidates[:10]
ExtraWindow(cands) ==
  IF Cardinality(cands) < EXTRA_WINDOW THEN Cardinality(cands) ELSE EXTRA_WINDOW


\* one iteration of _grow_extra.  The shuffle decides which cells are in
\* the window and in which order: the iteration sets a cell can_place
\* accepts (shuffled to the front), or, when cells can_place rejects fill
\* the window, sets none
ExtraIteration ==
  /\ pc = "grow_extra"
  /\ ExtraInnerOn
  /\ get_frontier_candidates(grid) # {}
  /\ LET cands == get_frontier_candidates(grid)
         tested == [c \in cands |-> can_place(grid, c[1], c[2], lower_grid)]
         rejected == {c \in cands : ~tested[c].ok}
     IN \/ \E c \in cands \ rejected :
             /\ grid' = set(tested[c].cells, c[1], c[2], 1)
             /\ ex_placed' = ex_placed + 1
        \/ /\ Cardinality(rejected) >= ExtraWindow(cands)
           /\ grid' = RejectAll(grid, SubSeq(InOrder(rejected), 1, ExtraWindow(cands)), lower_grid)
           /\ ex_placed' = ex_placed
  /\ ex_attempts' = ex_attempts + 1
  /\ UNCHANGED <<sim, cfgvars, callvars, cachevars, pc, layer_idx, current_function, current_group_start,
                 permanent_empty, layers, previous_grids, grown,
                 placed, attempts, extra_attempts, ex_count, prune_cell>>

\* _grow_extra returns; "if grew == 0: break", else extra_attempts += 1
ExtraReturn ==
  /\ pc = "grow_extra"
  /\ ~ExtraInnerOn \/ get_frontier_candidates(grid) = {}
  /\ IF ex_placed = 0
     THEN pc' = "prune" /\ extra_attempts' = extra_attempts
     ELSE pc' = "extra" /\ extra_attempts' = extra_attempts + 1
  /\ ex_count' = 0 /\ ex_placed' = 0 /\ ex_attempts' = 0
  /\ UNCHANGED <<sim, cfgvars, callvars, cachevars, layer_idx, current_function, current_group_start,
                 permanent_empty, layers, previous_grids, grown, grid,
                 placed, attempts, prune_cell>>

\* the top-up loop ends
ExtraExit ==
  /\ pc = "extra"
  /\ ~ExtraLoopOn
  /\ pc' = "prune"
  /\ UNCHANGED <<sim, cfgvars, callvars, cachevars, layer_idx, current_function, current_group_start,
                 permanent_empty, layers, previous_grids, grown, grid, loopvars>>

\* _prune_to_max -----------------------------------------------------------
PruneLoopOn == alive_count(grid) > max_cells /\ PruneCandidates(grid) # {}

\* one iteration up to "grid.set(x, y, 0)"
PrunePick ==
  /\ pc = "prune"
  /\ PruneLoopOn
  /\ prune_cell' = PruneChoice(grid)
  /\ grid' = set(grid, PruneChoice(grid)[1], PruneChoice(grid)[2], 0)
  /\ pc' = "prune_check"
  /\ UNCHANGED <<sim, cfgvars, callvars, cachevars, layer_idx, current_function, current_group_start,
                 permanent_empty, layers, previous_grids, grown,
                 placed, attempts, extra_attempts, ex_count, ex_placed, ex_attempts>>

\* the connectivity test of the iteration: a removal that disconnects the
\* structure is taken back ("continue"), then the loop condition is read again
PruneCheck ==
  /\ pc = "prune_check"
  /\ grid' = IF PruneBreaks(grid) THEN set(grid, prune_cell[1], prune_cell[2], 1) ELSE grid
  /\ pc' = "prune"
  /\ UNCHANGED <<sim, cfgvars, callvars, cachevars, layer_idx, current_function, current_group_start,
                 permanent_empty, layers, previous_grids, grown, loopvars>>

\* grow_layer returns (single group) or the group is done (multi group)
PruneExit ==
  /\ pc = "prune"
  /\ ~PruneLoopOn
  /\ pc' = IF multi_group THEN "group_done" ELSE "cleanup"
  /\ UNCHANGED <<sim, cfgvars, callvars, cachevars, layer_idx, current_function, current_group_start,
                 permanent_empty, layers, previous_grids, grown, grid, loopvars>>

\* grow_layer_multi_group: next group, or the union of the group grids ----
NextGroup ==
  /\ pc = "group_done"
  /\ group_idx < num_groups
  /\ grown' = Append(grown, grid)
  /\ current_group_start' = start_groups[group_idx + 1]
  /\ grid' = SeedGrid(start_groups[group_idx + 1], layer_idx)
  /\ pc' = "grow"
  /\ ResetLoops
  /\ UNCHANGED <<sim, cfgvars, callvars, cachevars, layer_idx, current_function, permanent_empty, layers,
                 previous_grids>>

Combine ==
  /\ pc = "group_done"
  /\ group_idx = num_groups
  /\ grown' = Append(grown, grid)
  /\ current_group_start' = <<>>
  /\ grid' = [c \in Cells |->
                IF grid[c] = 1 \/ \E i \in 1..Len(grown) : grown[i][c] = 1 THEN 1 ELSE 0]
  /\ pc' = "cleanup"
  /\ ResetLoops
  /\ UNCHANGED <<sim, cfgvars, callvars, cachevars, layer_idx, current_function, permanent_empty, layers,
                 previous_grids>>

\* after growth -------------------------------------------------------------
\* remove_isolated, enforce_start_cells
Cleanup ==
  /\ pc = "cleanup"
  /\ grid' = enforce_start_cells(remove_isolated(grid))
  /\ pc' = IF layer_idx = 0 THEN "sync_base" ELSE "mask"
  /\ ResetLoops
  /\ UNCHANGED <<sim, cfgvars, callvars, cachevars, layer_idx, current_function, current_group_start,
                 permanent_empty, layers, previous_grids, grown>>

\* layer 0: sync_vertical_holes_from_base
SyncBase ==
  /\ pc = "sync_base"
  /\ permanent_empty' = permanent_empty \cup sync_vertical_holes_from_base(grid)
  /\ pc' = "finalize"
  /\ UNCHANGED <<sim, cfgvars, callvars, cachevars, layer_idx, current_function, current_group_start,
                 layers, previous_grids, grown, grid, loopvars>>

\* layers >= 1: the tracked holes are applied again
Mask ==
  /\ pc = "mask"
  /\ grid' = apply_holes(grid)
  /\ pc' = "finalize"
  /\ UNCHANGED <<sim, cfgvars, callvars, cachevars, layer_idx, current_function, current_group_start,
                 permanent_empty, layers, previous_grids, grown, loopvars>>

\* a finalization that replaces the tracker by the holes of the new layer
Finalize_replaces_tracker ==
  /\ pc = "finalize"
  /\ layers' = Append(layers, grid)
  /\ permanent_empty' = sync_holes_from_previous_layer(grid)
  /\ previous_grids' = IF multi_group THEN grown ELSE <<>>
  /\ grown' = <<>>
  /\ IF layer_idx + 1 < layer_count
     THEN pc' = "start_layer" /\ layer_idx' = layer_idx + 1
     ELSE pc' = "done" /\ layer_idx' = layer_idx
  /\ UNCHANGED <<sim, cfgvars, callvars, cachevars, current_function, current_group_start, grid, loopvars>>

\* the layer is appended to Simulation.layers and its holes are synchronised;
\* the run goes on with the next layer or ends
Finalize ==
  /\ pc = "finalize"
  /\ layers' = Append(layers, grid)
  /\ permanent_empty' = permanent_empty \cup sync_holes_from_previous_layer(grid)
  /\ previous_grids' = IF multi_group THEN grown ELSE <<>>
  /\ grown' = <<>>
  /\ IF layer_idx + 1 < layer_count
     THEN pc' = "start_layer" /\ layer_idx' = layer_idx + 1
     ELSE pc' = "done" /\ layer_idx' = layer_idx
  /\ UNCHANGED <<sim, cfgvars, callvars, cachevars, current_function, current_group_start, grid, loopvars>>

Next ==
  \/ StartLayer
  \/ GrowIteration \/ GrowExit
  \/ ExtraCall \/ ExtraIteration \/ ExtraReturn \/ ExtraExit
  \/ PrunePick \/ PruneCheck \/ PruneExit
  \/ NextGroup \/ Combine
  \/ Cleanup \/ SyncBase \/ Mask \/ Finalize

Spec == Init /\ [][Next]_vars

\* The interpreter runs the program on until run() returns: weak fairness
\* of every step.  For the two iterations that evaluate can_place over the
\* frontier, WF_vars(GrowIteration \/ ExtraIteration) is written out with
\* the loop conditions, under which an iteration always has a step.
LightSteps ==
  \/ StartLayer \/ GrowExit
  \/ ExtraCall \/ ExtraReturn \/ ExtraExit
  \/ PrunePick \/ PruneCheck \/ PruneExit
  \/ NextGroup \/ Combine
  \/ Cleanup \/ SyncBase \/ Mask \/ Finalize

IterationOn ==
  /\ get_frontier_candidates(grid) # {}
  /\ \/ pc = "grow" /\ GrowLoopOn
     \/ pc = "grow_extra" /\ ExtraInnerOn

FairSpec ==
  /\ Spec
  /\ WF_vars(LightSteps)
  /\ []<>(~IterationOn) \/ []<><<GrowIteration \/ ExtraIteration>>_vars

TypeOK ==
  /\ grid \in [Cells -> {0, 1}]
  /\ permanent_empty \subseteq Cells
  /\ pc \in {"start_layer", "grow", "extra", "grow_extra", "prune", "prune_check",
             "group_done", "cleanup", "sync_base", "mask", "finalize", "done",
             "call", "returned"}

\* ------------------------------------------------------------------------
\* Direct calls of single methods on arbitrary grids
\* ------------------------------------------------------------------------
\* the layered simulation with an engine on an unconstrained grid with one
\* start cell, before any layer has been grown, and a grid handed to it
LayeredState(g, function, gps, holes) ==
  /\ boundary_query = AllInside
  /\ membrane_query = AllOutside
  /\ outer_line_query = AllFar
  /\ start_groups = << << <<0, 0>> >> >>
  /\ obstacle_cells = {}
  /\ growth_points = gps
  /\ LAYER_GROWTH_FREEDOM = 30
  /\ layer_count = 1
  /\ layer_functions = [i \in 1..1 |-> function]
  /\ pc = "call"
  /\ layer_idx = 0
  /\ current_function = function
  /\ current_group_start = <<>>
  /\ permanent_empty = holes
  /\ layers = <<>>
  /\ previous_grids = <<>>
  /\ grown = <<>>
  /\ grid = g
  /\ placed = 0 /\ attempts = 0 /\ extra_attempts = 0
  /\ ex_count = 0 /\ ex_placed = 0 /\ ex_attempts = 0
  /\ prune_cell = None
  /\ call = <<>> /\ ret = FALSE
  /\ _outside_cache = {} /\ _outside_cache_hash = NoHash

\* that engine, in a session that runs no simple simulation
Engine(g, function, gps, holes) == LayeredState(g, function, gps, holes) /\ sim = [pc |-> "idle"]

\* _get_outside_cells on every grid whose alive cells lie in the window
OutsideGrids == {SetAll(EmptyGrid, S, 1) : S \in SUBSET Window}

OutsideInit == \E g \in OutsideGrids : Engine(g, "Living", {}, {})

CallGetOutsideCells ==
  /\ pc = "call"
  /\ call' = <<"_get_outside_cells">>
  /\ ret' = _get_outside_cells(grid)
  /\ pc' = "returned"
  /\ UNCHANGED <<sim, cfgvars, cachevars, layer_idx, current_function, current_group_start,
                 permanent_empty, layers, previous_grids, grown, grid, loopvars>>

OutsideNext == CallGetOutsideCells

OutsideSpec == OutsideInit /\ [][OutsideNext]_vars

\* the tentative-placement checks on the grids whose alive cells lie in the
\* 3x3 start block around <<1, 1>>, for coordinates in and around the grid;
\* one cell is a tracked hole and a repeller sits in the last corner
ProbeGrids ==
  {SetAll(EmptyGrid, S, 1) : S \in SUBSET (SeqToSet(BlockPositions(1, 1, 9)) \cap Cells)}

ProbeInit ==
  \E g \in ProbeGrids, function \in FunctionChoices :
    Engine(g, function,
           {[pos |-> <<Cols - 1, Rows - 1>>, strength |-> -10, radius |-> 1]},
           {<<Cols - 1, 0>>})

\* the call of one method with a coordinate: its answer and the grid it
\* returns with
Invoke(name, x, y) ==
  CASE name = "can_place" -> can_place(grid, x, y, lower_grid)
    [] name = "score_candidate" -> score_candidate(grid, x, y)
    [] name = "_check_connectivity" -> _check_connectivity(grid, x, y)
    [] name = "_check_light_distance" -> _check_light_distance(grid, x, y)
    [] name = "_would_create_internal_hole" -> _would_create_internal_hole(grid, x, y)
    [] name = "_check_branch_end_width" -> _check_branch_end_width(grid, x, y)

Call(name) ==
  /\ pc = "call"
  /\ \E x \in (-1)..Cols, y \in (-1)..Rows :
       /\ call' = <<name, x, y>>
       /\ ret' = Invoke(name, x, y).ok
       /\ grid' = Invoke(name, x, y).cells
  /\ pc' = "returned"
  /\ UNCHANGED <<sim, cfgvars, cachevars, layer_idx, current_function, current_group_start,
                 permanent_empty, layers, previous_grids, grown, loopvars>>

CallCanPlace == Call("can_place")

CallScoreCandidate == Call("score_candidate")

CallCheckConnectivity == Call("_check_connectivity")

CallCheckLightDistance == Call("_check_light_distance")

CallWouldCreateInternalHole == Call("_would_create_internal_hole")

CallCheckBranchEndWidth == Call("_check_branch_end_width")

ProbeNext ==
  \/ CallCanPlace \/ CallScoreCandidate \/ CallCheckConnectivity
  \/ CallCheckLightDistance \/ CallWouldCreateInternalHole \/ CallCheckBranchEndWidth

ProbeSpec == ProbeInit /\ [][ProbeNext]_vars

\* the minimum-width rule of can_place on the same grids and coordinates
CallCheckMinWidth ==
  /\ pc = "call"
  /\ \E x \in (-1)..Cols, y \in (-1)..Rows :
       /\ call' = <<"_check_min_width", x, y>>
       /\ ret' = _check_min_width(grid, x, y)
  /\ pc' = "returned"
  /\ UNCHANGED <<sim, cfgvars, cachevars, layer_idx, current_function, current_group_start,
                 permanent_empty, layers, previous_grids, grown, grid, loopvars>>

MinWidthSpec == ProbeInit /\ [][CallCheckMinWidth]_vars

\* Constraints.is_allowed for coordinates in and around the grid, under every
\* combination of answers of the three geometry queries (an answer "Error"
\* is a query that raised) and with and without rasterized obstacle cells
AllowedInit ==
  \E b \in {"Inside", "Outside", "Error"}, mq \in {"Inside", "Outside", "Error"},
     o \in {"Near", "Far", "Error"}, obs \in SUBSET {<<0, 0>>, <<1, 1>>} :
    /\ boundary_query = [c \in Cells |-> b]
    /\ membrane_query = [c \in Cells |-> mq]
    /\ outer_line_query = [c \in Cells |-> o]
    /\ start_groups = << << <<0, 0>> >> >>
    /\ obstacle_cells = obs
    /\ growth_points = {}
    /\ LAYER_GROWTH_FREEDOM = 30
    /\ layer_count = 1
    /\ layer_functions = [i \in 1..1 |-> "Living"]
    /\ pc = "call"
    /\ layer_idx = 0
    /\ current_function = "Living"
    /\ current_group_start = <<>>
    /\ permanent_empty = {}
    /\ layers = <<>>
    /\ previous_grids = <<>>
    /\ grown = <<>>
    /\ grid = EmptyGrid
    /\ placed = 0 /\ attempts = 0 /\ extra_attempts = 0
    /\ ex_count = 0 /\ ex_placed = 0 /\ ex_attempts = 0
    /\ prune_cell = None
    /\ call = <<>> /\ ret = FALSE
    /\ _outside_cache = {} /\ _outside_cache_hash = NoHash
    /\ sim = [pc |-> "idle"]

CallIsAllowed ==
  /\ pc = "call"
  /\ \E x \in (-1)..Cols, y \in (-1)..Rows :
       /\ call' = <<"is_allowed", x, y>>
       /\ ret' = is_allowed(x, y)
  /\ pc' = "returned"
  /\ UNCHANGED <<sim, cfgvars, cachevars, layer_idx, current_function, current_group_start,
                 permanent_empty, layers, previous_grids, grown, grid, loopvars>>

AllowedSpec == AllowedInit /\ [][CallIsAllowed]_vars

\* term 7 of score_candidate under the same constraint sets: ret is what the
\* term adds to the score of (x, y), every other term being independent of
\* the obstacle cells
CallObstacleTerm ==
  /\ pc = "call"
  /\ \E x \in (-1)..Cols, y \in (-1)..Rows :
       /\ call' = <<"obstacle_term", x, y>>
       /\ ret' = ObstacleTerm(x, y)
  /\ pc' = "returned"
  /\ UNCHANGED <<sim, cfgvars, cachevars, layer_idx, current_function, current_group_start,
                 permanent_empty, layers, previous_grids, grown, grid, loopvars>>

ObstacleSpec == AllowedInit /\ [][CallObstacleTerm]_vars

\* the cache of _get_outside_cells under interleaved calls: the engine is
\* handed the grid of a layer or group with its start cell, cells of the
\* first two columns are set and cleared (placements, tentative placements
\* and their reverts, removals), the cache is invalidated as score_candidate
\* and _check_light_distance do, and the outside set is asked for
CacheCells == {c \in Window : c[1] <= 1}

CacheInit == Engine(SeedGrid(<< <<0, 0>> >>, 0), "Living", {}, {})

\* the whole of _get_outside_cells: the cached set when the hash of the
\* grid contents is the cached hash, else the flood fill, which is cached
CachedGetOutsideCells ==
  /\ pc \in {"call", "returned"}
  /\ IF _outside_cache_hash = GridHash(grid)
     THEN /\ ret' = _outside_cache
          /\ call' = <<"_get_outside_cells", "cached">>
          /\ UNCHANGED cachevars
     ELSE /\ ret' = _get_outside_cells(grid)
          /\ call' = <<"_get_outside_cells", "computed">>
          /\ _outside_cache' = _get_outside_cells(grid)
          /\ _outside_cache_hash' = GridHash(grid)
  /\ pc' = "returned"
  /\ UNCHANGED <<sim, cfgvars, layer_idx, current_function, current_group_start,
                 permanent_empty, layers, previous_grids, grown, grid, loopvars>>

\* Grid.set on a cell, changing it
CacheGridSet ==
  /\ pc \in {"call", "returned"}
  /\ \E c \in CacheCells :
       /\ call' = <<"set", c[1], c[2], 1 - grid[c]>>
       /\ grid' = set(grid, c[1], c[2], 1 - grid[c])
  /\ ret' = FALSE
  /\ pc' = "call"
  /\ UNCHANGED <<sim, cfgvars, cachevars, layer_idx, current_function, current_group_start,
                 permanent_empty, layers, previous_grids, grown, loopvars>>

\* "self._outside_cache_hash = None"
CacheInvalidate ==
  /\ pc \in {"call", "returned"}
  /\ _outside_cache_hash # NoHash
  /\ _outside_cache_hash' = NoHash
  /\ call' = <<"invalidate">>
  /\ ret' = FALSE
  /\ pc' = "call"
  /\ UNCHANGED <<sim, cfgvars, _outside_cache, layer_idx, current_function, current_group_start,
                 permanent_empty, layers, previous_grids, grown, grid, loopvars>>

\* the engine goes on with the fresh grid of the next layer or group
CacheNewGrid ==
  /\ pc \in {"call", "returned"}
  /\ grid # SeedGrid(start_cells, 0)
  /\ grid' = SeedGrid(start_cells, 0)
  /\ call' = <<"Grid">>
  /\ ret' = FALSE
  /\ pc' = "call"
  /\ UNCHANGED <<sim, cfgvars, cachevars, layer_idx, current_function, current_group_start,
                 permanent_empty, layers, previous_grids, grown, loopvars>>

CacheSpec ==
  CacheInit /\ [][CachedGetOutsideCells \/ CacheGridSet \/ CacheInvalidate \/ CacheNewGrid]_vars

\* ------------------------------------------------------------------------
\* The simple simulation (Config, SimpleGrid, DriverManager, StopperManager
\* and AnalysisSimulation of the first program of the file)
\* ------------------------------------------------------------------------
CELLS_PER_ITERATION_MIN == 3
CELLS_PER_ITERATION_MAX == 5
START_X == GRID_SIZE \div 2
START_Y == GRID_SIZE \div 2

SimpleCells == (0..(GRID_SIZE - 1)) \X (0..(GRID_SIZE - 1))

\* SimpleGrid.__init__: cells[y][x] = 0
SimpleGrid == [c \in SimpleCells |-> 0]

SimpleGrid_in_bounds(x, y) == 0 <= x /\ x < GRID_SIZE /\ 0 <= y /\ y < GRID_SIZE

SimpleGrid_set(g, x, y, value) ==
  IF SimpleGrid_in_bounds(x, y) THEN [g EXCEPT ![<<x, y>>] = value] ELSE g

SimpleGrid_is_empty(g, x, y) == SimpleGrid_in_bounds(x, y) /\ g[<<x, y>>] = 0

SimpleGrid_is_alive(g, x, y) == SimpleGrid_in_bounds(x, y) /\ g[<<x, y>>] = 1

\* "sum(sum(row) for row in self.cells)" over cells that hold 0 or 1
count_alive(g) == Cardinality({c \in SimpleCells : g[c] = 1})

\* get_neighbors_4 and is_alive in count_alive_neighbors
count_alive_neighbors(g, x, y) ==
  Cardinality({d \in {<<1, 0>>, <<-1, 0>>, <<0, 1>>, <<0, -1>>} :
                 SimpleGrid_is_alive(g, x + d[1], y + d[2])})

\* the cells of the list get_frontier_cells returns; the list is in
\* row-major order (y outer, x inner)
get_frontier_cells(g) ==
  {c \in SimpleCells :
     SimpleGrid_is_empty(g, c[1], c[2]) /\ count_alive_neighbors(g, c[1], c[2]) > 0}

\* calculate_score times 2 * GRID_SIZE, for the drivers light and
\* connected: ((x/GRID_SIZE + y/GRID_SIZE) / 2) * WEIGHT_LIGHT (8.0) and
\* (alive neighbours / 4) * WEIGHT_CONNECTED (6.0)
calculate_score(drivers, g, x, y) ==
  (IF "light" \in drivers THEN 8 * (x + y) ELSE 0)
  + (IF "connected" \in drivers THEN 3 * GRID_SIZE * count_alive_neighbors(g, x, y) ELSE 0)

_check_boundary(x, y, center_x, center_y) ==
  LET dx == IF x >= center_x THEN x - center_x ELSE center_x - x
      dy == IF y >= center_y THEN y - center_y ELSE center_y - y
  IN dx <= BOUNDARY_SIZE /\ dy <= BOUNDARY_SIZE

\* StopperManager._check_min_width
StopperManager_check_min_width(g, x, y) ==
  LET alive(a, b) == SimpleGrid_is_alive(g, a, b)
      has_left == alive(x - 1, y)
      has_right == alive(x + 1, y)
      has_up == alive(x, y - 1)
      has_down == alive(x, y + 1)
  IN IF count_alive(g) < 4 THEN TRUE
     ELSE \/ /\ has_left
             /\ \/ alive(x - 1, y - 1) \/ alive(x - 1, y + 1)
                \/ has_up \/ has_down
          \/ /\ has_right
             /\ \/ alive(x + 1, y - 1) \/ alive(x + 1, y + 1)
                \/ has_up \/ has_down
          \/ /\ has_up
             /\ \/ alive(x - 1, y - 1) \/ alive(x + 1, y - 1)
                \/ has_left \/ has_right
          \/ /\ has_down
             /\ \/ alive(x - 1, y + 1) \/ alive(x + 1, y + 1)
                \/ has_left \/ has_right

\* StopperManager._check_light_distance: found_free, looked for with the
\* cell set to 1; the cell is reset to 0 afterwards
StopperManager_check_light_distance(g, x, y) ==
  LET tentative == SimpleGrid_set(g, x, y, 1)
  IN \E d \in {<<1, 0>>, <<-1, 0>>, <<0, 1>>, <<0, -1>>}, dist \in 1..MAX_LIGHT_DISTANCE :
       LET check_x == x + d[1] * dist
           check_y == y + d[2] * dist
       IN \/ ~SimpleGrid_in_bounds(check_x, check_y)
          \/ SimpleGrid_is_empty(tentative, check_x, check_y)

\* StopperManager.is_allowed without the boundary stopper
StopperManager_is_allowed_no_boundary(stoppers, g, x, y, start_x, start_y) ==
  /\ "min_width" \in stoppers => StopperManager_check_min_width(g, x, y)
  /\ "light_distance" \in stoppers => StopperManager_check_light_distance(g, x, y)

\* StopperManager.is_allowed
StopperManager_is_allowed(stoppers, g, x, y, start_x, start_y) ==
  /\ "boundary" \in stoppers => _check_boundary(x, y, start_x, start_y)
  /\ "min_width" \in stoppers => StopperManager_check_min_width(g, x, y)
  /\ "light_distance" \in stoppers => StopperManager_check_light_distance(g, x, y)

\* AnalysisSimulation.run up to the call of _run_growth: the grid with the
\* start cell, and the stoppers and drivers the user selected (the drivers
\* among light and connected)
SimpleInit ==
  /\ LayeredState(EmptyGrid, "Living", {}, {})
  /\ \E stoppers \in SUBSET {"boundary", "min_width", "light_distance"},
        drivers \in SUBSET {"light", "connected"} :
       sim = [pc |-> "while", stoppers |-> stoppers, drivers |-> drivers,
              grid |-> SimpleGrid_set(SimpleGrid, START_X, START_Y, 1),
              iterations |-> 0, top_candidates |-> {},
              available_candidates |-> {}, cells_to_grow |-> 0]

\* the cells of scored_candidates: the frontier cells is_allowed lets pass
ScoredCandidates(s) ==
  {c \in get_frontier_cells(s.grid) :
     StopperManager_is_allowed(s.stoppers, s.grid, c[1], c[2], START_X, START_Y)}

\* the sets top_candidates can be: the first top_count cells of the
\* candidates sorted by score, highest first.  The sort is stable, equal
\* scores stay in row-major order; with the light driver, whose score is a
\* sum of rounded quotients, cells of equal exact score are taken in any
\* order.
TopCandidates(s) ==
  LET scored == ScoredCandidates(s)
      score(c) == calculate_score(s.drivers, s.grid, c[1], c[2])
      index(c) == c[2] * GRID_SIZE + c[1]
      before(a, b) == \/ score(a) > score(b)
                      \/ score(a) = score(b) /\ index(a) < index(b)
      top_count == IF TOP_CANDIDATES_POOL < Cardinality(scored)
                   THEN TOP_CANDIDATES_POOL ELSE Cardinality(scored)
  IN {top \in SUBSET scored :
        /\ Cardinality(top) = top_count
        /\ \A a \in top, b \in scored \ top :
             IF "light" \in s.drivers THEN score(a) >= score(b) ELSE before(a, b)}

\* one pass of the selection loop choosing among all cells of the pool, the
\* cells chosen before included
RunGrowthSelect_with_replacement ==
  /\ sim.pc = "for"
  /\ \E chosen_pos \in sim.top_candidates :
       LET last == Cardinality(sim.top_candidates \ sim.available_candidates) + 1
                     = sim.cells_to_grow
       IN sim' = [sim EXCEPT
                    !.grid = SimpleGrid_set(@, chosen_pos[1], chosen_pos[2], 1),
                    !.available_candidates =
                       IF last THEN {}
                       ELSE @ \ {CHOOSE c \in @ : TRUE},
                    !.top_candidates = IF last THEN {} ELSE @,
                    !.cells_to_grow = IF last THEN 0 ELSE @,
                    !.iterations = IF last THEN @ + 1 ELSE @,
                    !.pc = IF last THEN "while" ELSE "for"]
  /\ UNCHANGED <<cfgvars, pc, layer_idx, current_function, current_group_start,
                 permanent_empty, layers, previous_grids, grown, grid, loopvars,
                 callvars, cachevars>>

\* the head of one pass of the while loop of _run_growth: the frontier, the
\* allowed candidates, the pool of the best and the number of cells to grow;
\* the loop is left when there is no frontier cell or no allowed candidate
RunGrowthIteration ==
  /\ sim.pc = "while"
  /\ sim.iterations < MAX_ITERATIONS
  /\ IF ScoredCandidates(sim) = {}
     THEN sim' = [sim EXCEPT !.pc = "done"]
     ELSE \E top_candidates \in TopCandidates(sim) :
            LET cells_max == IF CELLS_PER_ITERATION_MAX < Cardinality(top_candidates)
                             THEN CELLS_PER_ITERATION_MAX ELSE Cardinality(top_candidates)
                cells_min == IF CELLS_PER_ITERATION_MIN < cells_max
                             THEN CELLS_PER_ITERATION_MIN ELSE cells_max
            IN \E cells_to_grow \in cells_min..cells_max :
                 sim' = [sim EXCEPT !.top_candidates = top_candidates,
                                    !.available_candidates = top_candidates,
                                    !.cells_to_grow = cells_to_grow,
                                    !.pc = "for"]
  /\ UNCHANGED <<cfgvars, pc, layer_idx, current_function, current_group_start,
                 permanent_empty, layers, previous_grids, grown, grid, loopvars,
                 callvars, cachevars>>

\* one pass of the selection loop: a cell of the pool is chosen (every
\* weight exp(score) is positive), set alive and removed from the pool;
\* after the last pass iterations is counted up
RunGrowthSelect ==
  /\ sim.pc = "for"
  /\ \E chosen_pos \in sim.available_candidates :
       LET last == Cardinality(sim.top_candidates \ sim.available_candidates) + 1
                     = sim.cells_to_grow
       IN sim' = [sim EXCEPT
                    !.grid = SimpleGrid_set(@, chosen_pos[1], chosen_pos[2], 1),
                    !.available_candidates = IF last THEN {} ELSE @ \ {chosen_pos},
                    !.top_candidates = IF last THEN {} ELSE @,
                    !.cells_to_grow = IF last THEN 0 ELSE @,
                    !.iterations = IF last THEN @ + 1 ELSE @,
                    !.pc = IF last THEN "while" ELSE "for"]
  /\ UNCHANGED <<cfgvars, pc, layer_idx, current_function, current_group_start,
                 permanent_empty, layers, previous_grids, grown, grid, loopvars,
                 callvars, cachevars>>

\* the while loop ends after MAX_ITERATIONS passes
RunGrowthExit ==
  /\ sim.pc = "while"
  /\ sim.iterations >= MAX_ITERATIONS
  /\ sim' = [sim EXCEPT !.pc = "done"]
  /\ UNCHANGED <<cfgvars, pc, layer_idx, current_function, current_group_start,
                 permanent_empty, layers, previous_grids, grown, grid, loopvars,
                 callvars, cachevars>>

SimpleSpec == SimpleInit /\ [][RunGrowthIteration \/ RunGrowthSelect \/ RunGrowthExit]_vars

\* the accessors of Grid on the grids of the start block, for coordinates in
\* and around the grid; a call of set carries the value as its fourth entry
CallGridGet ==
  /\ pc = "call"
  /\ \E x \in (-1)..Cols, y \in (-1)..Rows :
       /\ call' = <<"get", x, y>>
       /\ ret' = get(grid, x, y)
  /\ pc' = "returned"
  /\ UNCHANGED <<sim, cfgvars, cachevars, layer_idx, current_function, current_group_start,
                 permanent_empty, layers, previous_grids, grown, grid, loopvars>>

CallGridIsAlive ==
  /\ pc = "call"
  /\ \E x \in (-1)..Cols, y \in (-1)..Rows :
       /\ call' = <<"is_alive", x, y>>
       /\ ret' = is_alive(grid, x, y)
  /\ pc' = "returned"
  /\ UNCHANGED <<sim, cfgvars, cachevars, layer_idx, current_function, current_group_start,
                 permanent_empty, layers, previous_grids, grown, grid, loopvars>>

CallGridIsEmpty ==
  /\ pc = "call"
  /\ \E x \in (-1)..Cols, y \in (-1)..Rows :
       /\ call' = <<"is_empty", x, y>>
       /\ ret' = is_empty(grid, x, y)
  /\ pc' = "returned"
  /\ UNCHANGED <<sim, cfgvars, cachevars, layer_idx, current_function, current_group_start,
                 permanent_empty, layers, previous_grids, grown, grid, loopvars>>

\* Grid.set returns nothing; ret keeps alive_count of the grid it leaves
CallGridSet ==
  /\ pc = "call"
  /\ \E x \in (-1)..Cols, y \in (-1)..Rows, value \in {0, 1} :
       /\ call' = <<"set", x, y, value>>
       /\ grid' = set(grid, x, y, value)
       /\ ret' = alive_count(set(grid, x, y, value))
  /\ pc' = "returned"
  /\ UNCHANGED <<sim, cfgvars, cachevars, layer_idx, current_function, current_group_start,
                 permanent_empty, layers, previous_grids, grown, loopvars>>

\* can_place under the rules of Living and Work on every grid whose alive
\* cells lie in the window and form one component with the start cell, as
\* the grids a layer grows through do
PlaceInit ==
  \E g \in {o \in OutsideGrids :
              is_alive(o, 0, 0) /\ get_component(o, 0, 0) = get_all_alive_cells(o)},
     function \in {"Living", "Work"} : Engine(g, function, {}, {})

PlaceSpec == PlaceInit /\ [][CallCanPlace]_vars

\* _compute_width_score on the grids of the start block under every preset,
\* for coordinates in and around the grid and both kinds of division
WidthInit ==
  \E g \in ProbeGrids, function \in Functions : Engine(g, function, {}, {})

CallComputeWidthScore ==
  /\ pc = "call"
  /\ \E x \in (-1)..Cols, y \in (-1)..Rows, floor_division \in BOOLEAN :
       /\ call' = <<"_compute_width_score", x, y, floor_division>>
       /\ ret' = _compute_width_score(SizedGrid(Cols, Rows, grid), x, y, floor_division)
  /\ pc' = "returned"
  /\ UNCHANGED <<sim, cfgvars, cachevars, layer_idx, current_function, current_group_start,
                 permanent_empty, layers, previous_grids, grown, grid, loopvars>>

WidthSpec == WidthInit /\ [][CallComputeWidthScore]_vars

GridInit == \E g \in ProbeGrids : Engine(g, "Living", {}, {})

GridNext == CallGridGet \/ CallGridIsAlive \/ CallGridIsEmpty \/ CallGridSet

GridSpec == GridInit /\ [][GridNext]_vars

\* ------------------------------------------------------------------------
\* Properties
\* ------------------------------------------------------------------------
\* the cells reachable from a set of cells through cells of `through`, by
\* paths of at most Cols * Rows steps
Grow1(S, through) ==
  S \cup {n \in through : \E c \in S : n \in neighbors_4(c[1], c[2])}

RECURSIVE Closure(_, _, _)
Closure(S, through, k) ==
  LET T == Grow1(S, through)
  IN IF k = 0 \/ T = S THEN S ELSE Closure(T, through, k - 1)

\* every alive cell of g can be reached from an alive cell of `seeds`
\* through alive cells
ReachesSeeds(g, seeds) ==
  get_all_alive_cells(g) \subseteq
    Closure(seeds \cap get_all_alive_cells(g), get_all_alive_cells(g), Cols * Rows)

\* the empty cells of g that an empty border cell reaches through empty cells
TrueOutside(g) ==
  Closure({c \in empty_cells(g) : is_edge(c)}, empty_cells(g), Cols * Rows)

\* the enclosed voids of g
Voids(g) == empty_cells(g) \ TrueOutside(g)

\* the seeds the grid under growth is anchored to
Anchor ==
  IF current_group_start # <<>> THEN SeqToSet(current_group_start)
  ELSE SeqToSet(start_cells)

\* some growth point vetoes the cell
Vetoed(c) == \E gp \in growth_points : influence_below(gp, c[1], c[2], HARD_BLOCKADE_THRESHOLD)

\* the cells a step sets alive
NewCells == {c \in Cells : grid[c] = 0 /\ grid'[c] = 1}

\* C1: every alive cell of a grid is reachable from a seed through alive
\* cells: in the grid under work after each phase of a layer (main loop,
\* top-up, pruning between two removals, clean-up, hole mask), in each
\* group's grid of a multi-group run, and in every finalized layer.
C1_Connectivity ==
  /\ pc \notin {"prune_check", "call", "returned"} => ReachesSeeds(grid, Anchor)
  /\ \A i \in 1..Len(grown) : ReachesSeeds(grown[i], SeqToSet(start_groups[i]))
  /\ \A i \in 1..Len(layers) : ReachesSeeds(layers[i], SeqToSet(start_cells))

\* a multi-group run has finished and its last layer holds grown cells
C1_Witness ==
  /\ pc = "done"
  /\ multi_group
  /\ Len(layers) > 1
  /\ get_all_alive_cells(layers[Len(layers)]) \ SeqToSet(start_cells) # {}

\* C2: when a layer is finalized, every position the tracker held before
\* is empty in it.
C2_HolesStayEmpty ==
  [][(Len(layers') > Len(layers)) =>
       (\A h \in permanent_empty : layers'[Len(layers')][h] = 0)]_vars

\* a cell the constraints allow is tracked as a void of the first layer and
\* a later layer, whose growth reached a neighbour of it, has been finalized
C2_Witness ==
  /\ Len(layers) > 1
  /\ \E h \in permanent_empty :
       /\ is_allowed(h[1], h[2])
       /\ h \in Voids(layers[1])
       /\ has_alive_neighbor_4(layers[2], h[1], h[2])

C4_OutsideCells ==
  (pc = "returned" /\ call = <<"_get_outside_cells">>) =>
    /\ ret = TrueOutside(grid)
    /\ \A c \in Cells :
         (is_empty(grid, c[1], c[2]) /\ Cardinality(neighbors_8(c[1], c[2])) = 8
            /\ count_alive_neighbors_8(grid, c[1], c[2]) = 8) => c \notin ret
    /\ \A c \in Cells : (is_edge(c) /\ is_empty(grid, c[1], c[2])) => c \in ret

\* the call returned for a ring of alive cells around <<1, 1>>
C4_Witness ==
  /\ pc = "returned"
  /\ call = <<"_get_outside_cells">>
  /\ get_all_alive_cells(grid) = neighbors_8(1, 1)
  /\ <<1, 1>> \notin ret
  /\ ret # {}

\* a run from one seed with no constraint, obstacle or growth point
OneSeedOpen ==
  /\ Len(start_cells) = 1
  /\ \A c \in Cells : is_allowed(c[1], c[2])
  /\ growth_points = {}
  /\ obstacle_cells = {}

\* C5 as stated: such a layer ends with as many alive cells as the quota,
\* the seed counted.
C5_TotalIsQuota ==
  (OneSeedOpen /\ layer_idx = 0 /\ pc = "cleanup") => alive_count(grid) = grow_count

\* C5: the main loop of such a layer ends with the seed plus grow_count
\* cells, all connected to the seed; the layer ends with that count when it
\* lies between the layer's minimum and maximum.
C5_SeedPlusQuota ==
  (OneSeedOpen /\ layer_idx = 0) =>
    /\ (pc = "extra" /\ extra_attempts = 0) =>
         /\ alive_count(grid) = grow_count + 1
         /\ ReachesSeeds(grid, SeqToSet(start_cells))
    /\ (pc = "cleanup" /\ min_cells <= grow_count + 1 /\ grow_count + 1 <= max_cells) =>
         /\ alive_count(grid) = grow_count + 1
         /\ ReachesSeeds(grid, SeqToSet(start_cells))

\* the first layer of such a run has been grown
C5_Witness ==
  /\ OneSeedOpen
  /\ layer_idx = 0
  /\ pc = "cleanup"
  /\ placed = grow_count
  /\ alive_count(grid) = grow_count + 1

\* C6: a growth step sets exactly one cell, and before the step that cell
\* was empty, allowed, not tracked as a hole and next to an alive cell.
C6_LegalPlacement ==
  [][(pc \in {"grow", "grow_extra"} /\ grid' # grid) =>
       \E c \in Cells :
         /\ grid' = set(grid, c[1], c[2], 1)
         /\ is_empty(grid, c[1], c[2])
         /\ is_allowed(c[1], c[2])
         /\ ~is_permanent_empty(c[1], c[2])
         /\ has_alive_neighbor_4(grid, c[1], c[2])]_vars

\* cells have been placed while the frontier offered a candidate that
\* touches no alive cell
C6_Witness ==
  /\ pc \in {"grow", "grow_extra"}
  /\ placed > 0
  /\ \E c \in get_frontier_candidates(grid) : ~has_alive_neighbor_4(grid, c[1], c[2])

\* C7: no growth step, of the main loop or of the top-up, sets a cell that
\* a growth point vetoes.
C7_VetoedNeverSet ==
  [][(pc \in {"grow", "grow_extra"}) => (\A c \in NewCells : ~Vetoed(c))]_vars

C9_MainLoop ==
  /\ [](placed <= grow_count)
  /\ [][(pc = "grow" /\ pc' # "grow") =>
          \/ placed = grow_count
          \/ get_frontier_candidates(grid) = {}
          \/ attempts = MaxGrowAttempts]_vars
  /\ (pc = "grow") ~> (pc # "grow")

\* the loop ended on its attempt budget, short of the quota and with
\* candidates left
C9_Witness ==
  /\ pc = "extra"
  /\ attempts = MaxGrowAttempts
  /\ placed < grow_count
  /\ get_frontier_candidates(grid) # {}

\* C10: a removal that is taken back is followed by the removal of a
\* different cell, and pruning always ends.
C10_PruneTerminates ==
  /\ [][(pc = "prune" /\ pc' = "prune_check" /\ prune_cell # None
           /\ is_alive(grid, prune_cell[1], prune_cell[2])) =>
          prune_cell' # prune_cell]_vars
  /\ (pc \in {"prune", "prune_check"}) ~> (pc \notin {"prune", "prune_check"})

\* C11: is_allowed is false for every out-of-bounds coordinate and for every
\* blocked cell; otherwise it is true exactly when the boundary query does
\* not answer "outside", the membrane query does not answer "inside" and the
\* outer-line query does not answer "near", so a query that raised an error
\* allows the cell.
C11_IsAllowed ==
  (pc = "returned" /\ call[1] = "is_allowed") =>
    LET x == call[2]
        y == call[3]
    IN IF ~(x \in 0..(Cols - 1) /\ y \in 0..(Rows - 1)) THEN ret = FALSE
       ELSE IF <<x, y>> \in blocked_cells THEN ret = FALSE
       ELSE ret = (/\ boundary_query[<<x, y>>] # "Outside"
                   /\ membrane_query[<<x, y>>] # "Inside"
                   /\ outer_line_query[<<x, y>>] # "Near")

\* all three queries raised and the cell was allowed
C11_Witness ==
  /\ pc = "returned" /\ call[1] = "is_allowed" /\ ret = TRUE
  /\ boundary_query[<<call[2], call[3]>>] = "Error"
  /\ membrane_query[<<call[2], call[3]>>] = "Error"
  /\ outer_line_query[<<call[2], call[3]>>] = "Error"

\* C13: for a coordinate outside [0, Cols) x [0, Rows), negative ones
\* included, get returns 0, is_alive and is_empty return false and set
\* leaves every cell of the grid as it was.
C13_OutOfBounds ==
  [][(/\ pc = "call" /\ pc' = "returned"
      /\ ~(call'[2] \in 0..(Cols - 1) /\ call'[3] \in 0..(Rows - 1))) =>
       (/\ (call'[1] = "get") => (ret' = 0)
        /\ (call'[1] \in {"is_alive", "is_empty"}) => (ret' = FALSE)
        /\ (call'[1] = "set") => (grid' = grid))]_vars

\* a set of 1 at a negative coordinate of a grid that has alive cells
C13_Witness ==
  /\ pc = "returned" /\ call[1] = "set" /\ call[2] = -1 /\ call[4] = 1
  /\ alive_count(grid) > 0

\* C14: for an in-bounds (x, y), after set(x, y, 1) the cell is alive,
\* alive_count has grown by one if the cell was empty and is unchanged if it
\* was alive, and no other cell has changed.
C14_SetAlive ==
  [][(/\ pc = "call" /\ pc' = "returned" /\ call'[1] = "set"
      /\ call'[2] \in 0..(Cols - 1) /\ call'[3] \in 0..(Rows - 1)
      /\ call'[4] = 1) =>
       (LET x == call'[2]
            y == call'[3]
        IN /\ is_alive(grid', x, y)
           /\ alive_count(grid') =
                alive_count(grid) + (IF grid[<<x, y>>] = 0 THEN 1 ELSE 0)
           /\ ret' = alive_count(grid')
           /\ \A c \in Cells \ {<<x, y>>} : grid'[c] = grid[c])]_vars

\* a set of 1 on a cell that was already alive
C14_Witness ==
  /\ pc = "returned" /\ call[1] = "set" /\ call[4] = 1
  /\ call[2] \in 0..(Cols - 1) /\ call[3] \in 0..(Rows - 1)
  /\ alive_count(grid) = ret /\ ret = 9

\* the basic checks of can_place on the grid under growth: the cell is
\* allowed, not a tracked hole, not alive, has an alive 4-neighbour, lies
\* over an alive cell of the layer below when strict support is active, and
\* reaches the first alive anchor cell through alive cells (no test when no
\* anchor cell is alive)
BasicChecks(x, y) ==
  /\ x \in 0..(Cols - 1) /\ y \in 0..(Rows - 1)
  /\ is_allowed(x, y)
  /\ <<x, y>> \notin permanent_empty
  /\ grid[<<x, y>>] = 0
  /\ \E n \in neighbors_4(x, y) : grid[n] = 1
  /\ (layer_idx > 0 /\ LAYER_GROWTH_FREEDOM < STRICT_SUPPORT_THRESHOLD) =>
       (lower_grid[<<x, y>>] = 1)
  /\ LET anchors == IF current_group_start # <<>> THEN current_group_start ELSE start_cells
         first == FirstAlive(grid, anchors)
     IN first # None =>
          <<x, y>> \in Closure({first}, get_all_alive_cells(grid) \cup {<<x, y>>},
                               Cols * Rows)

\* C12: while a layer grows under a light-distance threshold at or above
\* the free-form cutover, can_place accepts a coordinate exactly when the
\* basic checks pass, whatever the shape rules say about it.
C12_FreeForm ==
  (pc \in {"grow", "grow_extra"} /\ preset_LIGHT_DISTANCE >= FREE_FORM_CUTOVER) =>
    \A x \in (-1)..Cols, y \in (-1)..Rows :
      can_place(grid, x, y, lower_grid).ok = BasicChecks(x, y)

\* a free-form layer in which can_place accepts a cell that the shape rules
\* reject, and rejects another for lack of support in the layer below
C12_Witness ==
  /\ pc \in {"grow", "grow_extra"} /\ preset_LIGHT_DISTANCE >= FREE_FORM_CUTOVER
  /\ \E c \in Cells :
       /\ can_place(grid, c[1], c[2], lower_grid).ok
       /\ ~ShapeRules(grid, c[1], c[2]).ok

\* C15: during a run the set of tracked positions never shrinks: no step
\* removes a position from VerticalHolesTracker, so a position present after
\* one layer is finalized is present after every later one.
C15_TrackerGrows == [][permanent_empty \subseteq permanent_empty']_vars

\* two layers are finalized, the tracker holds a position, and the second
\* layer alone would not have put it there
C15_Witness ==
  /\ Len(layers) = 2
  /\ permanent_empty # {}
  /\ ~(permanent_empty \subseteq sync_holes_from_previous_layer(layers[2]))

\* the transposed grid: columns and rows swapped
Transposed(G) ==
  SizedGrid(G.rows, G.cols,
            [c \in (0..(G.rows - 1)) \X (0..(G.cols - 1)) |-> G.cells[<<c[2], c[1]>>]])

\* C16: the width score of a grid at (x, y) equals the width score of the
\* transposed grid at (y, x) under the same preset (equality of the two
\* fractions).
C16_WidthSymmetric ==
  (pc = "returned" /\ call[1] = "_compute_width_score") =>
    LET t == _compute_width_score(Transposed(SizedGrid(Cols, Rows, grid)),
                                  call[3], call[2], call[4])
    IN ret[1] * t[2] = t[1] * ret[2]

\* a call on a grid that is not its own transpose, at a cell whose row run
\* and column run both count at least two cells and differ, under true
\* division
C16_Witness ==
  /\ pc = "returned" /\ call[1] = "_compute_width_score" /\ call[4] = FALSE
  /\ count_h(grid, call[2], call[3]) >= 2
  /\ count_v(grid, call[2], call[3]) >= 2
  /\ count_h(grid, call[2], call[3]) # count_v(grid, call[2], call[3])
  /\ grid[<<0, 1>>] # grid[<<1, 0>>]

\* the grid after the placement a call of can_place was asked about
Placed == set(grid, call[2], call[3], 1)

\* can_place has accepted a cell under a light-distance threshold below the
\* free-form cutover
AcceptedUnderLight ==
  /\ pc = "returned" /\ call[1] = "can_place" /\ ret = TRUE
  /\ preset_LIGHT_DISTANCE < FREE_FORM_CUTOVER

\* the empty cells of g that lie k steps or fewer through empty cells from n
EmptyWithin(g, n, k) == Closure({n}, empty_cells(g), k)

OutsideWithin(g, c, k) == Closure({c}, Cells, k) \cap TrueOutside(g) # {}

WasVoid(p) == \E i \in 1..Len(layers) : p \in Voids(layers[i])

\* the position was empty in the finalized layer 0 and had an alive cell to
\* its left and to its right in its row and above and below in its column
WasBetween(p) ==
  /\ Len(layers) >= 1
  /\ layers[1][p] = 0
  /\ \E a \in get_all_alive_cells(layers[1]) : a[2] = p[2] /\ a[1] < p[1]
  /\ \E a \in get_all_alive_cells(layers[1]) : a[2] = p[2] /\ a[1] > p[1]
  /\ \E a \in get_all_alive_cells(layers[1]) : a[1] = p[1] /\ a[2] < p[2]
  /\ \E a \in get_all_alive_cells(layers[1]) : a[1] = p[1] /\ a[2] > p[2]

\* C19 as stated: between two layers and at the end of the run, every
\* tracked position was an enclosed void of some finalized layer, on layer
\* 0 as on later layers.
C19_OnlyVoidsTracked ==
  (pc \in {"start_layer", "done"}) => \A p \in permanent_empty : WasVoid(p)

\* C19: every tracked position was an enclosed void of some finalized
\* layer, or was an empty cell of layer 0, grown under a threshold below the
\* free-form cutover, with alive cells on its four sides in its row and
\* column.
C19_VoidsOrBetweenTracked ==
  (pc \in {"start_layer", "done"}) =>
    \A p \in permanent_empty :
      \/ WasVoid(p)
      \/ /\ FUNCTION_PRESETS[layer_functions[1]].LIGHT_DISTANCE < FREE_FORM_CUTOVER
         /\ WasBetween(p)

\* the run has ended with a tracked position that was never an enclosed
\* void and came from the four-sides test on layer 0
C19_Witness ==
  /\ pc = "done"
  /\ \E p \in permanent_empty : ~WasVoid(p) /\ WasBetween(p)

RECURSIVE ChainCell(_, _, _, _)
ChainCell(g, c, first, i) ==
  IF i = 0 THEN c
  ELSE IF i = 1 THEN first
  ELSE LET at == ChainCell(g, c, first, i - 1)
       IN IF at = None THEN None
          ELSE NextInChain(g, at, ChainCell(g, c, first, i - 2))

\* the i-th cell of the walk exists and is as wide as the branch-end minimum
\* across the direction the walk reached it from
WideAt(g, c, first, i) ==
  LET at == ChainCell(g, c, first, i)
  IN /\ at # None
     /\ _count_perpendicular_width(g, at[1], at[2], ChainCell(g, c, first, i - 1))
          >= preset_MIN_BRANCH_END_WIDTH

\* the i-th cell of the walk exists and is thinner than that
ThinAt(g, c, first, i) ==
  ChainCell(g, c, first, i) # None /\ ~WideAt(g, c, first, i)

\* a call of _check_branch_end_width that evaluates the rule for a candidate
\* with exactly one alive 4-neighbour once it is placed
BranchEndCase ==
  /\ pc = "call" /\ pc' = "returned" /\ call'[1] = "_check_branch_end_width"
  /\ alive_count(grid) >= preset_MIN_CELLS_FOR_WIDTH_CHECK
  /\ preset_MIN_BRANCH_END_WIDTH > 1
  /\ count_alive_neighbors_4(set(grid, call'[2], call'[3], 1), call'[2], call'[3]) = 1

\* C21 as stated: in such a call the candidate is legal exactly when the
\* walk reaches a cell of the minimum width within the maximum thin length;
\* a chain that runs out before that makes the candidate illegal.
C21_LegalOnlyIfWide ==
  [][BranchEndCase =>
       LET g == set(grid, call'[2], call'[3], 1)
           c == <<call'[2], call'[3]>>
           first == NextInChain(g, c, None)
       IN ret' = (\E i \in 1..preset_MAX_THIN_FINGER_LENGTH :
                    /\ \A j \in 1..(i - 1) : ThinAt(g, c, first, j)
                    /\ WideAt(g, c, first, i))]_vars

\* C21: in such a call the candidate is legal exactly when the walk, within
\* the maximum thin length, reaches a cell of the minimum width or runs out
\* of chain: a chain that ends at a thin cell with the thin length, that
\* cell and the candidate counted, still within the maximum is legal.
C21_LegalIfWideOrChainEnds ==
  [][BranchEndCase =>
       LET g == set(grid, call'[2], call'[3], 1)
           c == <<call'[2], call'[3]>>
           first == NextInChain(g, c, None)
       IN ret' = (\E i \in 1..preset_MAX_THIN_FINGER_LENGTH :
                    /\ \A j \in 1..(i - 1) : ThinAt(g, c, first, j)
                    /\ \/ WideAt(g, c, first, i)
                       \/ /\ ThinAt(g, c, first, i)
                          /\ i + 1 <= preset_MAX_THIN_FINGER_LENGTH
                          /\ ChainCell(g, c, first, i + 1) = None)]_vars

\* the rule accepted an empty in-bounds candidate whose one neighbour is
\* thin and whose walk reached a wide cell at the second step
C21_Witness ==
  /\ pc = "returned" /\ call[1] = "_check_branch_end_width" /\ ret = TRUE
  /\ is_empty(grid, call[2], call[3])
  /\ alive_count(grid) >= preset_MIN_CELLS_FOR_WIDTH_CHECK
  /\ preset_MIN_BRANCH_END_WIDTH > 1
  /\ count_alive_neighbors_4(Placed, call[2], call[3]) = 1
  /\ LET first == NextInChain(Placed, <<call[2], call[3]>>, None)
     IN /\ ThinAt(Placed, <<call[2], call[3]>>, first, 1)
        /\ WideAt(Placed, <<call[2], call[3]>>, first, 2)

\* the obstacle cells among the four neighbour coordinates of (x, y)
AdjacentObstacles(x, y) ==
  Cardinality({<<x + 1, y>>, <<x - 1, y>>, <<x, y + 1>>, <<x, y - 1>>} \cap obstacle_cells)

\* C22: the obstacle term never raises a score; it lowers the score of a
\* candidate that is an obstacle cell by a fixed amount, and that of any
\* other candidate by a smaller amount for each adjacent obstacle cell.
C22_ObstaclePenalty ==
  (pc = "returned" /\ call[1] = "obstacle_term") =>
    /\ ret <= 0
    /\ <<call[2], call[3]>> \in obstacle_cells => ret = -1200
    /\ <<call[2], call[3]>> \notin obstacle_cells =>
         /\ ret = -60 * AdjacentObstacles(call[2], call[3])
         /\ -ret < 1200

\* a layer above layer 0 is being grown in strict-support mode
StrictGrowth ==
  /\ LAYER_GROWTH_FREEDOM < STRICT_SUPPORT_THRESHOLD
  /\ layer_idx >= 1
  /\ pc \in {"grow", "extra", "grow_extra", "prune", "prune_check", "group_done"}

\* C23: in strict-support mode every cell a growth step of the main loop or
\* of the supplementary growth sets on a layer above layer 0 is alive in
\* the lower grid passed to the layer, and every alive cell of the grid
\* under growth that is not a seed of its anchor lies over an alive cell of
\* that lower grid.
C23_StrictSupport ==
  /\ [][(StrictGrowth /\ pc \in {"grow", "grow_extra"}) =>
          (\A c \in NewCells : lower_grid[c] = 1)]_vars
  /\ [](StrictGrowth =>
          \A c \in get_all_alive_cells(grid) \ Anchor : lower_grid[c] = 1)

\* in strict-support mode a layer above layer 0 holds a cell that the main
\* loop placed and the supplementary growth has placed one more, while a
\* frontier candidate next to an alive cell has no alive cell below it
C23_Witness ==
  /\ StrictGrowth /\ pc = "grow_extra"
  /\ placed > 0 /\ ex_placed > 0
  /\ \E c \in get_frontier_candidates(grid) :
       has_alive_neighbor_4(grid, c[1], c[2]) /\ lower_grid[c] = 0

\* C24: the minimum-width rule of can_place works with the MIN_WIDTH of the
\* active preset: it rejects exactly the candidates whose horizontal and
\* vertical runs, the candidate included, are both shorter than that value.
C24_PresetMinWidth ==
  (pc = "returned" /\ call[1] = "_check_min_width") =>
    ret = (\/ count_h(grid, call[2], call[3]) >= current_preset.MIN_WIDTH
           \/ count_v(grid, call[2], call[3]) >= current_preset.MIN_WIDTH)

\* the grid contents the calls of CacheSpec lead through
CacheGrids == {SetAll(EmptyGrid, S, 1) : S \in SUBSET CacheCells}

\* a call of _get_outside_cells has returned
OutsideReturned == pc = "returned" /\ call[1] = "_get_outside_cells"

StaleOnlyOnCollision ==
  [][(pc' = "returned" /\ call'[1] = "_get_outside_cells") =>
       /\ _outside_cache_hash # GridHash(grid) => ret' = TrueOutside(grid)
       /\ ret' # TrueOutside(grid) =>
            \E other \in CacheGrids \ {grid} :
              GridHash(other) = GridHash(grid) /\ ret' = TrueOutside(other)
       /\ _outside_cache' = ret' /\ _outside_cache_hash' = GridHash(grid)
       /\ grid' = grid]_vars

\* the alive cells of the simple simulation's grid
SimAlive == {c \in SimpleCells : sim.grid[c] = 1}

\* the boundary rectangle around the start cell
InRectangle(c) ==
  /\ c[1] - START_X <= BOUNDARY_SIZE /\ START_X - c[1] <= BOUNDARY_SIZE
  /\ c[2] - START_Y <= BOUNDARY_SIZE /\ START_Y - c[2] <= BOUNDARY_SIZE

\* C26: with the boundary stopper active, at every point of _run_growth
\* every alive cell lies in the boundary rectangle around the start cell.
C26_InsideBoundary ==
  "boundary" \in sim.stoppers => \A c \in SimAlive : InRectangle(c)

\* the growth has ended with the boundary stopper active, an alive cell lies
\* on the border of the rectangle and next to an empty cell outside it
C26_Witness ==
  /\ sim.pc = "done" /\ "boundary" \in sim.stoppers
  /\ sim.iterations >= 2
  /\ \E c \in SimAlive, e \in get_frontier_cells(sim.grid) :
       /\ c[1] = START_X - BOUNDARY_SIZE
       /\ e = <<c[1] - 1, c[2]>> /\ ~InRectangle(e)

\* the cells set alive by the passes of the selection loop so far
SimChosen == sim.top_candidates \ sim.available_candidates

Min(a, b) == IF a < b THEN a ELSE b

\* C27: each iteration of _run_growth that finds n >= 1 allowed candidates
\* in its pool of at most TOP_CANDIDATES_POOL sets between min(3,n) and min(5,n) cells alive,
\* one per pass, each of them a cell of the pool that was empty and was not
\* chosen before, so the alive count grows by one per pass and by the number
\* chosen per iteration; the loop ends only after MAX_ITERATIONS iterations
\* or when no frontier cell is an allowed candidate.
C27_CellsPerIteration ==
  /\ [](sim.pc = "for" =>
          LET n == Cardinality(sim.top_candidates)
          IN /\ n >= 1 /\ n <= TOP_CANDIDATES_POOL
             /\ sim.cells_to_grow >= Min(CELLS_PER_ITERATION_MIN, n)
             /\ sim.cells_to_grow <= Min(CELLS_PER_ITERATION_MAX, n)
             /\ Cardinality(SimChosen) < sim.cells_to_grow
             /\ SimChosen \subseteq SimAlive
             /\ sim.available_candidates \cap SimAlive = {})
  /\ [](sim.iterations <= MAX_ITERATIONS)
  /\ [][/\ (sim.pc = "while" /\ sim'.pc = "for") =>
            /\ sim'.grid = sim.grid /\ SimChosen' = {}
            /\ sim'.top_candidates \subseteq ScoredCandidates(sim)
            /\ Cardinality(sim'.top_candidates) =
                 Min(TOP_CANDIDATES_POOL, Cardinality(ScoredCandidates(sim)))
        /\ sim.pc = "for" =>
            /\ \E c \in sim.available_candidates :
                 /\ sim.grid[c] = 0
                 /\ sim'.grid = [sim.grid EXCEPT ![c] = 1]
            /\ Cardinality(SimAlive') = Cardinality(SimAlive) + 1
            /\ IF Cardinality(SimChosen) + 1 = sim.cells_to_grow
               THEN sim'.pc = "while" /\ sim'.iterations = sim.iterations + 1
               ELSE /\ sim'.pc = "for" /\ sim'.iterations = sim.iterations
                    /\ Cardinality(SimChosen') = Cardinality(SimChosen) + 1
        /\ sim'.pc = "done" =>
             \/ sim.iterations = MAX_ITERATIONS
             \/ ScoredCandidates(sim) = {}
        /\ (sim.pc = "while" /\ sim.iterations < MAX_ITERATIONS
              /\ ScoredCandidates(sim) # {}) => sim'.pc = "for"]_vars

\* the fifth cell of an iteration is about to be set, out of a full pool of
\* more than five
C27_Witness ==
  /\ sim.pc = "for"
  /\ sim.cells_to_grow = CELLS_PER_ITERATION_MAX
  /\ Cardinality(SimChosen) = CELLS_PER_ITERATION_MAX - 1
  /\ Cardinality(sim.top_candidates) > CELLS_PER_ITERATION_MAX
  /\ Cardinality(sim.top_candidates) = TOP_CANDIDATES_POOL

\* C28: every cell set alive by _run_growth satisfies all active stoppers
\* evaluated against the grid as it is at the moment the cell is set, the
\* second to fifth cell of an iteration included.
C28_AllowedWhenSet ==
  [][sim.pc = "for" =>
       \A c \in SimpleCells :
         (sim.grid[c] = 0 /\ sim'.grid[c] = 1) =>
           StopperManager_is_allowed(sim.stoppers, sim.grid, c[1], c[2],
                                     START_X, START_Y)]_vars

\* the stoppers other than light_distance do hold when a cell is set: the
\* boundary stopper does not depend on the grid, and the min_width stopper
\* only gains from the cells set in between
OtherStoppersHoldWhenSet ==
  [][sim.pc = "for" =>
       \A c \in SimpleCells :
         (sim.grid[c] = 0 /\ sim'.grid[c] = 1) =>
           StopperManager_is_allowed(sim.stoppers \ {"light_distance"}, sim.grid,
                                     c[1], c[2], START_X, START_Y)]_vars

\* every alive cell of g lies in a horizontal or in a vertical run of alive
\* cells of length max_line or less
WithinMaxLine(g, max_line) ==
  \A a \in get_all_alive_cells(g) :
    count_h(g, a[1], a[2]) <= max_line \/ count_v(g, a[1], a[2]) <= max_line

\* C29: in a layer grown with a maximum run length below the cutover, a
\* placement accepted on a grid whose alive cells all lie in a horizontal or
\* in a vertical run of at most that length leaves a grid whose alive cells
\* all do (from seeds that satisfy it on, after every accepted placement).
C29_RunsWithinMaxLine ==
  [][(/\ pc \in {"grow", "grow_extra"} /\ grid' # grid
      /\ preset_LIGHT_DISTANCE < FREE_FORM_CUTOVER
      /\ preset_MAX_LINE < MAX_LINE_CUTOVER
      /\ WithinMaxLine(grid, preset_MAX_LINE))
       => WithinMaxLine(grid', preset_MAX_LINE)]_vars

\* C30: every alive cell of every finalized layer, the seeds included,
\* satisfies Constraints.is_allowed under the constraints of the run
\* (boundary, membranes, outer lines, and the obstacles rasterized after
\* the start groups were chosen).
C30_FinalizedAllowed ==
  \A i \in 1..Len(layers) :
    \A c \in get_all_alive_cells(layers[i]) : is_allowed(c[1], c[2])
====
